---- MODULE Spec2Model ----
(***************************************************************************)
(* Model of the JobHunter scraping engine:                                 *)
(*   - BDJobs.scrape, the paginated fetch / parse / accumulate loop of the *)
(*     Bangladesh job-board crawler (backend/scraper/bdjobs/__init__.py);  *)
(*   - JobService.scrape_jobs_wrapper, the remote-filter backfill loop     *)
(*     (backend/modules/services.py);                                      *)
(*   - get_available_sites and get_country_from_location, the site         *)
(*     selector and the location classifier (modules/utils.py);            *)
(*   - process_jobs_dataframe, the result normalizer (modules/utils.py);   *)
(*   - JobService.search_jobs, the caller of the engine                    *)
(*     (backend/modules/services.py).                                      *)
(* Strings are sequences of one-character strings, so that lower-casing    *)
(* and substring tests are computed as the code computes them.             *)
(***************************************************************************)
EXTENDS Integers, Sequences, FiniteSets, TLC

VARIABLES
    \* ---- BDJobs.scrape: one run ----
    scraper_input,   \* the ScraperInput: [location, results_wanted]
    pc,              \* position of the run in scrape()
    job_list,        \* postings accumulated so far
    seen_ids,        \* ids of the postings accumulated so far
    page,            \* page index of the next search-page request
    job_cards,       \* cards of the current page not yet processed
    fetches,         \* number of session.get calls issued
    sleeps,          \* number of inter-page time.sleep calls performed
    response,        \* kind of the last page response
    last_card,       \* what the last processed card led to
    outcome,         \* "running", "returned" or "raised"
    jobs,            \* JobResponse.jobs handed to the caller
    \* ---- JobService.scrape_jobs_wrapper: one call ----
    results_wanted,  \* parameter results_wanted
    is_remote,       \* parameter is_remote: "None", "True" or "False"
    wpc,             \* position of the call in scrape_jobs_wrapper()
    initial_results_wanted,
    rounds,          \* results_wanted of each scrape_jobs call, in order
    raw_rounds,      \* rows returned by each scrape_jobs call, in order
    jobs_df,         \* the wrapper's working DataFrame
    filtered,        \* did the wrapper apply the remote filter
    additional_failed, \* did the supplementary scrape_jobs call raise
    merged,          \* jobs_df as it stood right before the final head()
    returned_df,     \* the DataFrame handed to the caller
    location,        \* parameter location
    sites,           \* the sites selected for the call
    country_code,    \* the country detected for the call
    hours_old_param, \* the recency filter: {72}, or {} for None
    round_hours_old, \* hours_old of each scrape_jobs call, in order
    raised_by,       \* the steps of the call that raised an exception
    wrapper_outcome, \* "running", "returned" or "raised"
    \* ---- the location classifier and the site selector, applied to one location ----
    place,           \* the location they are applied to
    selected_sites,  \* result of get_available_sites, once called
    detected_country, \* result of get_country_from_location, once called
    bd_applicable,   \* result of is_bangladesh_location, once called
    \* ---- process_jobs_dataframe: one batch ----
    norm_df,         \* the DataFrame to normalize
    npc,             \* "raw", "normalized" or "renormalized"
    jobs_list,       \* the postings process_jobs_dataframe returned
    jobs_list_again, \* the postings of normalizing jobs_list once more
    normalize_raised, \* did process_jobs_dataframe raise
    \* ---- JobService.search_jobs behind POST /jobs/search: one request ----
    request,         \* the JobSearchRequest
    spc,             \* "Received" or "Done"
    http_status,     \* status of the HTTP answer
    search_response, \* the JobSearchResponse, when there is one
    \* ---- two BDJobs.scrape runs on one BDJobs object ----
    runs,            \* the local state of each run
    self_scraper_input, \* the attribute self.scraper_input of the object
    alone,           \* what each run would hold had it met its cards alone
    \* ---- ResumeService: one call ----
    resume_call,     \* the method called and its request
    rpc,             \* "called" or "done"
    upstream,        \* what the external service did, once called
    upstream_calls,  \* number of requests sent to the external service
    resume_answer    \* the response returned or the HTTPException raised

scrapeVars == <<scraper_input, pc, job_list, seen_ids, page, job_cards,
                fetches, sleeps, response, last_card, outcome, jobs>>
wrapVars == <<results_wanted, is_remote, wpc, initial_results_wanted, rounds,
              raw_rounds, jobs_df, filtered, additional_failed, merged,
              returned_df>>
wrapSelVars == <<location, sites, country_code, hours_old_param,
                 round_hours_old, raised_by, wrapper_outcome>>
locateVars == <<place, selected_sites, detected_country, bd_applicable>>
normVars == <<norm_df, npc, jobs_list, jobs_list_again, normalize_raised>>
searchVars == <<request, spc, http_status, search_response>>
twoRunVars == <<runs, self_scraper_input, alone>>
resumeVars == <<resume_call, rpc, upstream, upstream_calls, resume_answer>>
vars == <<scraper_input, pc, job_list, seen_ids, page, job_cards,
          fetches, sleeps, response, last_card, outcome, jobs,
          results_wanted, is_remote, wpc, initial_results_wanted, rounds,
          raw_rounds, jobs_df, filtered, additional_failed, merged,
          returned_df, location, sites, country_code, hours_old_param,
          round_hours_old, raised_by, wrapper_outcome,
          place, selected_sites, detected_country, bd_applicable,
          norm_df, npc, jobs_list, jobs_list_again, normalize_raised,
          request, spc, http_status, search_response,
          runs, self_scraper_input, alone,
          resume_call, rpc, upstream, upstream_calls, resume_answer>>
\* what a crawler run leaves alone
outsideScrape ==
    <<wrapVars, wrapSelVars, locateVars, normVars, searchVars, twoRunVars, resumeVars>>
\* what a wrapper call leaves alone
outsideWrapper ==
    <<scrapeVars, locateVars, normVars, searchVars, twoRunVars, resumeVars>>

----------------------------------------------------------------------------
(* Bounds of the exploration *)

\* results_wanted of a crawler run ranges over 1..MaxWanted
MaxWanted == 2
\* a search page carries at most MaxCards job cards
MaxCards == 2
\* the id query parameter of a job link ranges over 1..MaxJobParam
MaxJobParam == 1
\* number of distinct job-detail paths
MaxPath == 2
\* a scrape_jobs call returns at most MaxRows rows
MaxRows == 2
\* number of distinct job_url values in scrape_jobs rows
MaxUrl == 2
\* the wrapper's results_wanted covers 1..MaxSmallWanted and the cap's edges
MaxSmallWanted == 2
\* a DataFrame handed to the normalizer has at most MaxNormRows rows
MaxNormRows == 2

----------------------------------------------------------------------------
(* Strings *)

NoneStr == <<"None">>   \* Python's None where a str is expected

Min(a, b) == IF a <= b THEN a ELSE b

Range(s) == {s[i] : i \in 1..Len(s)}

UpperChars ==
    <<"A", "B", "C", "D", "E", "F", "G", "H", "I", "J", "K", "L", "M", "N", "O", "P", "Q", "R", "S", "T", "U", "V", "W", "X", "Y", "Z">>
LowerChars ==
    <<"a", "b", "c", "d", "e", "f", "g", "h", "i", "j", "k", "l", "m", "n", "o", "p", "q", "r", "s", "t", "u", "v", "w", "x", "y", "z">>

\* str.lower on one character
lower_char(c) ==
    IF \E i \in 1..Len(UpperChars) : UpperChars[i] = c
    THEN LowerChars[CHOOSE i \in 1..Len(UpperChars) : UpperChars[i] = c]
    ELSE c

\* str.lower
lower(s) == [i \in 1..Len(s) |-> lower_char(s[i])]

\* Python's `sub in s` for strings
contains(s, sub) ==
    \E k \in 0..(Len(s) - Len(sub)) :
        \A i \in 1..Len(sub) : s[k + i] = sub[i]

\* Python truthiness of an Optional[str]
truthy(s) == s # NoneStr /\ s # <<>>

LocEmpty == <<>>
LocBlank == <<" ">>
LocParis == <<"P", "a", "r", "i", "s">>
LocDhaka == <<"D", "h", "a", "k", "a">>
LocLondon == <<"L", "o", "n", "d", "o", "n">>
\* the locations a run is started with
Locations == {NoneStr, LocEmpty, LocBlank, LocParis, LocDhaka, LocLondon, <<"A", "b", "d", "a", "l", "i">>}

----------------------------------------------------------------------------
(* backend/scraper/bdjobs/__init__.py *)

bangladesh_indicators ==
    << <<"b", "a", "n", "g", "l", "a", "d", "e", "s", "h">>,
       <<"d", "h", "a", "k", "a">>,
       <<"c", "h", "i", "t", "t", "a", "g", "o", "n", "g">>,
       <<"s", "y", "l", "h", "e", "t">>,
       <<"r", "a", "j", "s", "h", "a", "h", "i">>,
       <<"k", "h", "u", "l", "n", "a">>,
       <<"b", "a", "r", "i", "s", "a", "l">>,
       <<"r", "a", "n", "g", "p", "u", "r">>,
       <<"m", "y", "m", "e", "n", "s", "i", "n", "g", "h">>,
       <<"c", "o", "m", "i", "l", "l", "a">>,
       <<"n", "a", "r", "a", "y", "a", "n", "g", "a", "n", "j">>,
       <<"g", "a", "z", "i", "p", "u", "r">>,
       <<"b", "d">>,
       <<"b", "e", "n", "g", "a", "l">> >>

is_bangladesh_location_always(loc) == TRUE

is_bangladesh_location(loc) ==
    IF ~truthy(loc) THEN TRUE
    ELSE \E i \in 1..Len(bangladesh_indicators) :
             contains(lower(loc), bangladesh_indicators[i])

MAX_PAGES == 5

\* hash(url) values lie apart from the id parameters
HashBase == 100

\* hash(url) of a job url
hash(url) == HashBase + url.path * (MaxJobParam + 1) + url.id

\* "bdjobs-<id parameter>", else "bdjobs-<hash(url)>"
extract_job_id_from_url(url) ==
    IF url.id # 0 THEN url.id ELSE hash(url)

\* A job card: its job link, and whether extracting its fields succeeds
Cards ==
    [href : [path : 1..MaxPath, id : 0..MaxJobParam], ok : {TRUE}]
    \cup [href : {[path |-> 1, id |-> 0]}, ok : {FALSE}]

NoPost == [id |-> 0, job_url |-> [path |-> 0, id |-> 0], is_remote |-> FALSE]

\* BDJobs._process_job: a JobPost, or None when any extraction step raises
_process_job(job_card) ==
    IF ~job_card.ok THEN NoPost
    ELSE [id |-> extract_job_id_from_url(job_card.href),
          job_url |-> job_card.href,
          is_remote |-> FALSE]

continue_search_off_by_one(jl, inp) == Len(jl) <= inp.results_wanted

\* continue_search = lambda: len(job_list) < scraper_input.results_wanted
continue_search(jl, inp) == Len(jl) < inp.results_wanted

not_seen_never(job_post, seen) == TRUE

\* job_post.id not in seen_ids
not_seen(job_post, seen) == job_post.id \notin seen

page_allowed_one_more(p) == p <= MAX_PAGES + 1

\* page <= 5
page_allowed(p) == p <= MAX_PAGES

\* the page responses a fetch can meet
PageSeqs == UNION {[1..n -> Cards] : n \in 1..MaxCards}

ScrapeIdle ==
    /\ scraper_input = [location |-> NoneStr, results_wanted |-> 1]
    /\ pc = "Idle"
    /\ job_list = <<>>
    /\ seen_ids = {}
    /\ page = 1
    /\ job_cards = <<>>
    /\ fetches = 0
    /\ sleeps = 0
    /\ response = "none"
    /\ last_card = "none"
    /\ outcome = "running"
    /\ jobs = <<>>


\* the applicability check, lines 163-166
CheckLocation ==
    /\ pc = "Init"
    /\ IF truthy(scraper_input.location)
          /\ ~is_bangladesh_location(scraper_input.location)
       THEN /\ pc' = "Done"
            /\ outcome' = "returned"
            /\ jobs' = <<>>
       ELSE /\ pc' = "Paginating"
            /\ UNCHANGED <<outcome, jobs>>
    /\ UNCHANGED <<scraper_input, job_list, seen_ids, page, job_cards,
                   fetches, sleeps, response, last_card>>
    /\ UNCHANGED outsideScrape

\* the while condition, line 179, and the return after the loop, lines 224-225
LoopTest ==
    /\ pc = "Paginating"
    /\ IF continue_search(job_list, scraper_input) /\ page_allowed(page)
       THEN /\ pc' = "Fetching"
            /\ UNCHANGED <<outcome, jobs>>
       ELSE /\ pc' = "Done"
            /\ outcome' = "returned"
            /\ jobs' = job_list
    /\ UNCHANGED <<scraper_input, job_list, seen_ids, page, job_cards,
                   fetches, sleeps, response, last_card>>
    /\ UNCHANGED outsideScrape

fetch_failed_hangs(jl) == [pc |-> "Retrying", outcome |-> "running", jobs |-> <<>>]

fetch_failed_raises(jl) == [pc |-> "Done", outcome |-> "raised", jobs |-> <<>>]

\* a break out of the while loop (lines 194, 201, 222), then lines 224-225
fetch_failed(jl) == [pc |-> "Done", outcome |-> "returned", jobs |-> jl]

\* session.get or the parsing raises (timeout, connection error): lines 220-222
FetchError ==
    /\ pc = "Fetching"
    /\ fetches' = fetches + 1
    /\ response' = "error"
    /\ pc' = fetch_failed(job_list).pc
    /\ outcome' = fetch_failed(job_list).outcome
    /\ jobs' = fetch_failed(job_list).jobs
    /\ UNCHANGED <<scraper_input, job_list, seen_ids, page, job_cards, sleeps,
                   last_card>>
    /\ UNCHANGED outsideScrape

\* response.status_code != 200: lines 192-194
FetchNon200 ==
    /\ pc = "Fetching"
    /\ fetches' = fetches + 1
    /\ response' = "non200"
    /\ pc' = fetch_failed(job_list).pc
    /\ outcome' = fetch_failed(job_list).outcome
    /\ jobs' = fetch_failed(job_list).jobs
    /\ UNCHANGED <<scraper_input, job_list, seen_ids, page, job_cards, sleeps,
                   last_card>>
    /\ UNCHANGED outsideScrape

\* find_job_listings finds no card: lines 196-201
FetchNoCards ==
    /\ pc = "Fetching"
    /\ fetches' = fetches + 1
    /\ response' = "no_cards"
    /\ pc' = fetch_failed(job_list).pc
    /\ outcome' = fetch_failed(job_list).outcome
    /\ jobs' = fetch_failed(job_list).jobs
    /\ UNCHANGED <<scraper_input, job_list, seen_ids, page, job_cards, sleeps,
                   last_card>>
    /\ UNCHANGED outsideScrape

\* a 200 response with at least one card: lines 186-203
FetchCards ==
    /\ pc = "Fetching"
    /\ \E cs \in PageSeqs : job_cards' = cs
    /\ fetches' = fetches + 1
    /\ response' = "cards"
    /\ pc' = "Accumulating"
    /\ UNCHANGED <<scraper_input, job_list, seen_ids, page, sleeps, last_card,
                   outcome, jobs>>
    /\ UNCHANGED outsideScrape

for_loop_aborts(rest) == "EndPage"

\* after a card that added nothing (lines 208, 214-215) the for loop goes on
\* to the next card of the page, and ends when there is none
for_loop_continues(rest) == IF rest = <<>> THEN "EndPage" ELSE "Accumulating"

\* one iteration of the for loop over job_cards: lines 205-215
ProcessCard ==
    /\ pc = "Accumulating"
    /\ job_cards # <<>>
    /\ job_cards' = Tail(job_cards)
    /\ LET job_post == _process_job(Head(job_cards)) IN
       IF job_post # NoPost /\ not_seen(job_post, seen_ids)
       THEN /\ seen_ids' = seen_ids \cup {job_post.id}
            /\ job_list' = Append(job_list, job_post)
            /\ last_card' = "added"
            /\ pc' = IF ~continue_search(job_list', scraper_input)
                        \/ Tail(job_cards) = <<>>
                     THEN "EndPage"            \* break, or the for loop ends
                     ELSE "Accumulating"
       ELSE /\ UNCHANGED <<seen_ids, job_list>>
            /\ last_card' = IF job_post = NoPost THEN "failed" ELSE "duplicate"
            /\ pc' = for_loop_continues(Tail(job_cards))
    /\ UNCHANGED <<scraper_input, page, fetches, sleeps, response, outcome, jobs>>
    /\ UNCHANGED outsideScrape

next_page_skips(p) == p + 2

\* page += 1, line 217
next_page(p) == p + 1

\* after the for loop: page += 1 and the randomized sleep, lines 217-218
NextPage ==
    /\ pc = "EndPage"
    /\ page' = next_page(page)
    /\ sleeps' = sleeps + 1
    /\ job_cards' = <<>>
    /\ pc' = "Paginating"
    /\ UNCHANGED <<scraper_input, job_list, seen_ids, fetches, response,
                   last_card, outcome, jobs>>
    /\ UNCHANGED outsideScrape

----------------------------------------------------------------------------
(* backend/scraper/bdjobs/__init__.py: two runs of BDJobs.scrape *)

\* the two runs; they may be calls on one BDJobs object
Runs == {1, 2}

\* the search pages the site serves to the two runs
RunPages ==
    LET a == [href |-> [path |-> 1, id |-> 1], ok |-> TRUE]
        b == [href |-> [path |-> 1, id |-> 0], ok |-> TRUE]
        f == [href |-> [path |-> 1, id |-> 0], ok |-> FALSE]
    IN {<<a>>, <<b>>, <<a, b>>, <<f, a>>}

\* lines 159-161: job_list, seen_ids and page are locals of the call
NewRun(inp) ==
    [input |-> inp, pc |-> "Init", job_list |-> <<>>, seen_ids |-> {},
     page |-> 1, job_cards |-> <<>>, outcome |-> "running", jobs |-> <<>>]

seen_ids_shared(rs, r) == UNION {rs[q].seen_ids : q \in DOMAIN rs}

\* line 160: the seen_ids a run tests and extends is its own local set
seen_ids_of(rs, r) == rs[r].seen_ids

\* lines 207-213 applied to one run's own postings: what the run holds after
\* a card when no other run exists
alone_accumulate(own, job_card, inp) ==
    LET job_post == _process_job(job_card)
    IN IF /\ Len(own) < inp.results_wanted
          /\ job_post # NoPost
          /\ \A i \in 1..Len(own) : own[i].id # job_post.id
       THEN Append(own, job_post)
       ELSE own

TwoRunsIdle ==
    /\ runs = <<>>
    /\ self_scraper_input = [location |-> NoneStr, results_wanted |-> 1]
    /\ alone = <<>>

\* what the two runs leave alone
outsideTwoRuns ==
    <<scrapeVars, wrapVars, wrapSelVars, locateVars, normVars, searchVars,
      resumeVars>>

\* lines 158-166 of run r
RunStart(r) ==
    /\ runs[r].pc = "Init"
    /\ self_scraper_input' = runs[r].input
    /\ runs' = [runs EXCEPT ![r] =
           IF truthy(runs[r].input.location)
              /\ ~is_bangladesh_location(runs[r].input.location)
           THEN [@ EXCEPT !.pc = "Done", !.outcome = "returned", !.jobs = <<>>]
           ELSE [@ EXCEPT !.pc = "Paginating"]]
    /\ UNCHANGED alone
    /\ UNCHANGED outsideTwoRuns

\* line 179 and lines 224-225 of run r
RunLoopTest(r) ==
    /\ runs[r].pc = "Paginating"
    /\ runs' = [runs EXCEPT ![r] =
           IF continue_search(runs[r].job_list, runs[r].input)
              /\ page_allowed(runs[r].page)
           THEN [@ EXCEPT !.pc = "Fetching"]
           ELSE [@ EXCEPT !.pc = "Done", !.outcome = "returned",
                          !.jobs = runs[r].job_list]]
    /\ UNCHANGED <<self_scraper_input, alone>>
    /\ UNCHANGED outsideTwoRuns

\* lines 182-201 and 220-222 of run r: the fetch fails or finds no card
RunFetchFails(r) ==
    /\ runs[r].pc = "Fetching"
    /\ runs' = [runs EXCEPT ![r] =
           [@ EXCEPT !.pc = fetch_failed(runs[r].job_list).pc,
                     !.outcome = fetch_failed(runs[r].job_list).outcome,
                     !.jobs = fetch_failed(runs[r].job_list).jobs]]
    /\ UNCHANGED <<self_scraper_input, alone>>
    /\ UNCHANGED outsideTwoRuns

\* lines 186-203 of run r: a page with cards
RunFetchCards(r) ==
    /\ runs[r].pc = "Fetching"
    /\ \E cs \in RunPages :
           runs' = [runs EXCEPT ![r] =
               [@ EXCEPT !.pc = "Accumulating", !.job_cards = cs]]
    /\ UNCHANGED <<self_scraper_input, alone>>
    /\ UNCHANGED outsideTwoRuns

\* lines 205-215 of run r: one iteration of the for loop
RunProcessCard(r) ==
    /\ runs[r].pc = "Accumulating"
    /\ runs[r].job_cards # <<>>
    /\ LET job_card == Head(runs[r].job_cards)
           rest == Tail(runs[r].job_cards)
           job_post == _process_job(job_card)
           added == Append(runs[r].job_list, job_post)
       IN /\ runs' = [runs EXCEPT ![r] =
                 IF job_post # NoPost /\ not_seen(job_post, seen_ids_of(runs, r))
                 THEN [@ EXCEPT !.seen_ids = @ \cup {job_post.id},
                                !.job_list = added,
                                !.job_cards = rest,
                                !.pc = IF ~continue_search(added, runs[r].input)
                                          \/ rest = <<>>
                                       THEN "EndPage"
                                       ELSE "Accumulating"]
                 ELSE [@ EXCEPT !.job_cards = rest,
                                !.pc = for_loop_continues(rest)]]
          /\ alone' = [alone EXCEPT ![r] =
                 alone_accumulate(alone[r], job_card, runs[r].input)]
    /\ UNCHANGED self_scraper_input
    /\ UNCHANGED outsideTwoRuns

\* lines 217-218 of run r
RunNextPage(r) ==
    /\ runs[r].pc = "EndPage"
    /\ runs' = [runs EXCEPT ![r] =
           [@ EXCEPT !.page = next_page(runs[r].page), !.job_cards = <<>>,
                     !.pc = "Paginating"]]
    /\ UNCHANGED <<self_scraper_input, alone>>
    /\ UNCHANGED outsideTwoRuns

\* one step of run r
RunStep(r) ==
    \/ RunStart(r)
    \/ RunLoopTest(r)
    \/ RunFetchFails(r)
    \/ RunFetchCards(r)
    \/ RunProcessCard(r)
    \/ RunNextPage(r)

----------------------------------------------------------------------------
(* modules/utils.py: the site selector and the location classifier *)

\* the characters str.strip removes
Whitespace == {" ", "\t", "\n", "\r"}

RECURSIVE lstrip(_)
lstrip(s) == IF s # <<>> /\ Head(s) \in Whitespace THEN lstrip(Tail(s)) ELSE s

RECURSIVE rstrip(_)
rstrip(s) ==
    IF s # <<>> /\ s[Len(s)] \in Whitespace
    THEN rstrip(SubSeq(s, 1, Len(s) - 1))
    ELSE s

\* str.strip
strip(s) == rstrip(lstrip(s))

\* any(keyword in location_lower for keyword in keywords)
any_keyword_in(keywords, location_lower) ==
    \E i \in 1..Len(keywords) : contains(location_lower, keywords[i])

\* the members of the Site enum the selector uses
LINKEDIN == "linkedin"
INDEED == "indeed"
GLASSDOOR == "glassdoor"
BDJOBS == "bdjobs"

\* hasattr(Site, 'BDJOBS'): the BDJobs crawler itself is built on Site.BDJOBS
BDJOBS_AVAILABLE == TRUE

\* get_available_sites, line 33
bangladesh_keywords ==
    << <<"b", "a", "n", "g", "l", "a", "d", "e", "s", "h">>,
       <<"d", "h", "a", "k", "a">>,
       <<"c", "h", "i", "t", "t", "a", "g", "o", "n", "g">>,
       <<"s", "y", "l", "h", "e", "t">>,
       <<"r", "a", "j", "s", "h", "a", "h", "i">>,
       <<"k", "h", "u", "l", "n", "a">>,
       <<"b", "a", "r", "i", "s", "a", "l">>,
       <<"r", "a", "n", "g", "p", "u", "r">>,
       <<"m", "y", "m", "e", "n", "s", "i", "n", "g", "h">> >>

\* get_available_sites, line 34
india_keywords ==
    << <<"i", "n", "d", "i", "a">>,
       <<"m", "u", "m", "b", "a", "i">>,
       <<"d", "e", "l", "h", "i">>,
       <<"b", "a", "n", "g", "a", "l", "o", "r", "e">>,
       <<"h", "y", "d", "e", "r", "a", "b", "a", "d">>,
       <<"c", "h", "e", "n", "n", "a", "i">>,
       <<"k", "o", "l", "k", "a", "t", "a">>,
       <<"p", "u", "n", "e">> >>

\* get_available_sites, line 35
middle_east_keywords ==
    << <<"u", "a", "e">>,
       <<"d", "u", "b", "a", "i">>,
       <<"a", "b", "u", " ", "d", "h", "a", "b", "i">>,
       <<"q", "a", "t", "a", "r">>,
       <<"d", "o", "h", "a">>,
       <<"s", "a", "u", "d", "i", " ", "a", "r", "a", "b", "i", "a">>,
       <<"r", "i", "y", "a", "d", "h">>,
       <<"k", "u", "w", "a", "i", "t">>,
       <<"b", "a", "h", "r", "a", "i", "n">>,
       <<"o", "m", "a", "n">> >>

\* get_available_sites, line 36
usa_keywords ==
    << <<"u", "s", "a">>,
       <<"u", "n", "i", "t", "e", "d", " ", "s", "t", "a", "t", "e", "s">>,
       <<"a", "m", "e", "r", "i", "c", "a">>,
       <<"u", "s">>,
       <<"n", "e", "w", " ", "y", "o", "r", "k">>,
       <<"c", "a", "l", "i", "f", "o", "r", "n", "i", "a">>,
       <<"t", "e", "x", "a", "s">>,
       <<"f", "l", "o", "r", "i", "d", "a">>,
       <<"c", "h", "i", "c", "a", "g", "o">>,
       <<"l", "o", "s", " ", "a", "n", "g", "e", "l", "e", "s">>,
       <<"s", "a", "n", " ", "f", "r", "a", "n", "c", "i", "s", "c", "o">>,
       <<"s", "e", "a", "t", "t", "l", "e">>,
       <<"b", "o", "s", "t", "o", "n">>,
       <<"a", "t", "l", "a", "n", "t", "a">> >>

\* get_available_sites, line 37
canada_keywords ==
    << <<"c", "a", "n", "a", "d", "a">>,
       <<"t", "o", "r", "o", "n", "t", "o">>,
       <<"v", "a", "n", "c", "o", "u", "v", "e", "r">>,
       <<"m", "o", "n", "t", "r", "e", "a", "l">>,
       <<"c", "a", "l", "g", "a", "r", "y">>,
       <<"o", "t", "t", "a", "w", "a">> >>

\* get_available_sites, line 38
uk_keywords ==
    << <<"u", "k">>,
       <<"u", "n", "i", "t", "e", "d", " ", "k", "i", "n", "g", "d", "o", "m">>,
       <<"l", "o", "n", "d", "o", "n">>,
       <<"m", "a", "n", "c", "h", "e", "s", "t", "e", "r">>,
       <<"b", "i", "r", "m", "i", "n", "g", "h", "a", "m">>,
       <<"g", "l", "a", "s", "g", "o", "w">>,
       <<"e", "d", "i", "n", "b", "u", "r", "g", "h">> >>

\* line 49
core_sites == <<LINKEDIN, INDEED, GLASSDOOR>>

RECURSIVE unique_from(_, _)
\* lines 89-95: drop repeated sites, keeping the first occurrence
unique_from(available_sites, seen) ==
    IF available_sites = <<>> THEN <<>>
    ELSE IF Head(available_sites) \in seen
         THEN unique_from(Tail(available_sites), seen)
         ELSE <<Head(available_sites)>>
              \o unique_from(Tail(available_sites), seen \cup {Head(available_sites)})

is_bangladesh_any(location_lower) == TRUE

\* line 41
is_bangladesh(location_lower) == any_keyword_in(bangladesh_keywords, location_lower)

get_available_sites_no_indeed(l) == <<LINKEDIN, GLASSDOOR>>

\* lines 22-98
get_available_sites(l) ==
    IF ~truthy(l) THEN <<LINKEDIN, INDEED, GLASSDOOR>>
    ELSE LET location_lower == strip(lower(l))
             is_india == any_keyword_in(india_keywords, location_lower)
             is_middle_east == any_keyword_in(middle_east_keywords, location_lower)
             is_usa == any_keyword_in(usa_keywords, location_lower)
             is_canada == any_keyword_in(canada_keywords, location_lower)
             is_uk == any_keyword_in(uk_keywords, location_lower)
             available_sites ==
                 IF is_bangladesh(location_lower)
                 THEN (IF BDJOBS_AVAILABLE THEN <<BDJOBS>> \o core_sites
                       ELSE core_sites)
                 ELSE IF is_india THEN core_sites
                 ELSE IF is_middle_east THEN core_sites
                 ELSE IF is_usa THEN core_sites
                 ELSE IF is_canada THEN core_sites
                 ELSE IF is_uk THEN core_sites
                 ELSE core_sites
         IN unique_from(available_sites, {})

\* get_country_from_location, lines 109-255, in the dict's insertion order
country_mapping ==
    << [keyword |-> <<"b", "a", "n", "g", "l", "a", "d", "e", "s", "h">>, country |-> "bangladesh"],
       [keyword |-> <<"d", "h", "a", "k", "a">>, country |-> "bangladesh"],
       [keyword |-> <<"c", "h", "i", "t", "t", "a", "g", "o", "n", "g">>, country |-> "bangladesh"],
       [keyword |-> <<"s", "y", "l", "h", "e", "t">>, country |-> "bangladesh"],
       [keyword |-> <<"r", "a", "j", "s", "h", "a", "h", "i">>, country |-> "bangladesh"],
       [keyword |-> <<"k", "h", "u", "l", "n", "a">>, country |-> "bangladesh"],
       [keyword |-> <<"b", "a", "r", "i", "s", "a", "l">>, country |-> "bangladesh"],
       [keyword |-> <<"r", "a", "n", "g", "p", "u", "r">>, country |-> "bangladesh"],
       [keyword |-> <<"m", "y", "m", "e", "n", "s", "i", "n", "g", "h">>, country |-> "bangladesh"],
       [keyword |-> <<"c", "o", "m", "i", "l", "l", "a">>, country |-> "bangladesh"],
       [keyword |-> <<"n", "a", "r", "a", "y", "a", "n", "g", "a", "n", "j">>, country |-> "bangladesh"],
       [keyword |-> <<"g", "a", "z", "i", "p", "u", "r">>, country |-> "bangladesh"],
       [keyword |-> <<"i", "n", "d", "i", "a">>, country |-> "india"],
       [keyword |-> <<"m", "u", "m", "b", "a", "i">>, country |-> "india"],
       [keyword |-> <<"d", "e", "l", "h", "i">>, country |-> "india"],
       [keyword |-> <<"b", "a", "n", "g", "a", "l", "o", "r", "e">>, country |-> "india"],
       [keyword |-> <<"h", "y", "d", "e", "r", "a", "b", "a", "d">>, country |-> "india"],
       [keyword |-> <<"c", "h", "e", "n", "n", "a", "i">>, country |-> "india"],
       [keyword |-> <<"k", "o", "l", "k", "a", "t", "a">>, country |-> "india"],
       [keyword |-> <<"p", "u", "n", "e">>, country |-> "india"],
       [keyword |-> <<"a", "h", "m", "e", "d", "a", "b", "a", "d">>, country |-> "india"],
       [keyword |-> <<"j", "a", "i", "p", "u", "r">>, country |-> "india"],
       [keyword |-> <<"s", "u", "r", "a", "t">>, country |-> "india"],
       [keyword |-> <<"l", "u", "c", "k", "n", "o", "w">>, country |-> "india"],
       [keyword |-> <<"k", "a", "n", "p", "u", "r">>, country |-> "india"],
       [keyword |-> <<"n", "a", "g", "p", "u", "r">>, country |-> "india"],
       [keyword |-> <<"i", "n", "d", "o", "r", "e">>, country |-> "india"],
       [keyword |-> <<"t", "h", "a", "n", "e">>, country |-> "india"],
       [keyword |-> <<"b", "h", "o", "p", "a", "l">>, country |-> "india"],
       [keyword |-> <<"v", "i", "s", "a", "k", "h", "a", "p", "a", "t", "n", "a", "m">>, country |-> "india"],
       [keyword |-> <<"p", "i", "m", "p", "r", "i">>, country |-> "india"],
       [keyword |-> <<"p", "a", "k", "i", "s", "t", "a", "n">>, country |-> "pakistan"],
       [keyword |-> <<"k", "a", "r", "a", "c", "h", "i">>, country |-> "pakistan"],
       [keyword |-> <<"l", "a", "h", "o", "r", "e">>, country |-> "pakistan"],
       [keyword |-> <<"i", "s", "l", "a", "m", "a", "b", "a", "d">>, country |-> "pakistan"],
       [keyword |-> <<"r", "a", "w", "a", "l", "p", "i", "n", "d", "i">>, country |-> "pakistan"],
       [keyword |-> <<"f", "a", "i", "s", "a", "l", "a", "b", "a", "d">>, country |-> "pakistan"],
       [keyword |-> <<"u", "s", "a">>, country |-> "usa"],
       [keyword |-> <<"u", "n", "i", "t", "e", "d", " ", "s", "t", "a", "t", "e", "s">>, country |-> "usa"],
       [keyword |-> <<"a", "m", "e", "r", "i", "c", "a">>, country |-> "usa"],
       [keyword |-> <<"u", "s">>, country |-> "usa"],
       [keyword |-> <<"n", "e", "w", " ", "y", "o", "r", "k">>, country |-> "usa"],
       [keyword |-> <<"c", "a", "l", "i", "f", "o", "r", "n", "i", "a">>, country |-> "usa"],
       [keyword |-> <<"t", "e", "x", "a", "s">>, country |-> "usa"],
       [keyword |-> <<"f", "l", "o", "r", "i", "d", "a">>, country |-> "usa"],
       [keyword |-> <<"c", "h", "i", "c", "a", "g", "o">>, country |-> "usa"],
       [keyword |-> <<"l", "o", "s", " ", "a", "n", "g", "e", "l", "e", "s">>, country |-> "usa"],
       [keyword |-> <<"s", "a", "n", " ", "f", "r", "a", "n", "c", "i", "s", "c", "o">>, country |-> "usa"],
       [keyword |-> <<"s", "e", "a", "t", "t", "l", "e">>, country |-> "usa"],
       [keyword |-> <<"b", "o", "s", "t", "o", "n">>, country |-> "usa"],
       [keyword |-> <<"a", "t", "l", "a", "n", "t", "a">>, country |-> "usa"],
       [keyword |-> <<"d", "e", "n", "v", "e", "r">>, country |-> "usa"],
       [keyword |-> <<"p", "h", "o", "e", "n", "i", "x">>, country |-> "usa"],
       [keyword |-> <<"p", "h", "i", "l", "a", "d", "e", "l", "p", "h", "i", "a">>, country |-> "usa"],
       [keyword |-> <<"h", "o", "u", "s", "t", "o", "n">>, country |-> "usa"],
       [keyword |-> <<"d", "a", "l", "l", "a", "s">>, country |-> "usa"],
       [keyword |-> <<"m", "i", "a", "m", "i">>, country |-> "usa"],
       [keyword |-> <<"w", "a", "s", "h", "i", "n", "g", "t", "o", "n">>, country |-> "usa"],
       [keyword |-> <<"l", "a", "s", " ", "v", "e", "g", "a", "s">>, country |-> "usa"],
       [keyword |-> <<"d", "e", "t", "r", "o", "i", "t">>, country |-> "usa"],
       [keyword |-> <<"m", "i", "n", "n", "e", "a", "p", "o", "l", "i", "s">>, country |-> "usa"],
       [keyword |-> <<"p", "o", "r", "t", "l", "a", "n", "d">>, country |-> "usa"],
       [keyword |-> <<"s", "a", "n", " ", "d", "i", "e", "g", "o">>, country |-> "usa"],
       [keyword |-> <<"c", "a", "n", "a", "d", "a">>, country |-> "canada"],
       [keyword |-> <<"t", "o", "r", "o", "n", "t", "o">>, country |-> "canada"],
       [keyword |-> <<"v", "a", "n", "c", "o", "u", "v", "e", "r">>, country |-> "canada"],
       [keyword |-> <<"m", "o", "n", "t", "r", "e", "a", "l">>, country |-> "canada"],
       [keyword |-> <<"c", "a", "l", "g", "a", "r", "y">>, country |-> "canada"],
       [keyword |-> <<"o", "t", "t", "a", "w", "a">>, country |-> "canada"],
       [keyword |-> <<"e", "d", "m", "o", "n", "t", "o", "n">>, country |-> "canada"],
       [keyword |-> <<"w", "i", "n", "n", "i", "p", "e", "g">>, country |-> "canada"],
       [keyword |-> <<"q", "u", "e", "b", "e", "c">>, country |-> "canada"],
       [keyword |-> <<"h", "a", "m", "i", "l", "t", "o", "n">>, country |-> "canada"],
       [keyword |-> <<"u", "k">>, country |-> "uk"],
       [keyword |-> <<"u", "n", "i", "t", "e", "d", " ", "k", "i", "n", "g", "d", "o", "m">>, country |-> "uk"],
       [keyword |-> <<"l", "o", "n", "d", "o", "n">>, country |-> "uk"],
       [keyword |-> <<"m", "a", "n", "c", "h", "e", "s", "t", "e", "r">>, country |-> "uk"],
       [keyword |-> <<"b", "i", "r", "m", "i", "n", "g", "h", "a", "m">>, country |-> "uk"],
       [keyword |-> <<"g", "l", "a", "s", "g", "o", "w">>, country |-> "uk"],
       [keyword |-> <<"e", "d", "i", "n", "b", "u", "r", "g", "h">>, country |-> "uk"],
       [keyword |-> <<"l", "i", "v", "e", "r", "p", "o", "o", "l">>, country |-> "uk"],
       [keyword |-> <<"b", "r", "i", "s", "t", "o", "l">>, country |-> "uk"],
       [keyword |-> <<"l", "e", "e", "d", "s">>, country |-> "uk"],
       [keyword |-> <<"s", "h", "e", "f", "f", "i", "e", "l", "d">>, country |-> "uk"],
       [keyword |-> <<"c", "a", "r", "d", "i", "f", "f">>, country |-> "uk"],
       [keyword |-> <<"b", "e", "l", "f", "a", "s", "t">>, country |-> "uk"],
       [keyword |-> <<"a", "u", "s", "t", "r", "a", "l", "i", "a">>, country |-> "australia"],
       [keyword |-> <<"s", "y", "d", "n", "e", "y">>, country |-> "australia"],
       [keyword |-> <<"m", "e", "l", "b", "o", "u", "r", "n", "e">>, country |-> "australia"],
       [keyword |-> <<"b", "r", "i", "s", "b", "a", "n", "e">>, country |-> "australia"],
       [keyword |-> <<"p", "e", "r", "t", "h">>, country |-> "australia"],
       [keyword |-> <<"a", "d", "e", "l", "a", "i", "d", "e">>, country |-> "australia"],
       [keyword |-> <<"c", "a", "n", "b", "e", "r", "r", "a">>, country |-> "australia"],
       [keyword |-> <<"g", "e", "r", "m", "a", "n", "y">>, country |-> "germany"],
       [keyword |-> <<"b", "e", "r", "l", "i", "n">>, country |-> "germany"],
       [keyword |-> <<"m", "u", "n", "i", "c", "h">>, country |-> "germany"],
       [keyword |-> <<"h", "a", "m", "b", "u", "r", "g">>, country |-> "germany"],
       [keyword |-> <<"c", "o", "l", "o", "g", "n", "e">>, country |-> "germany"],
       [keyword |-> <<"f", "r", "a", "n", "k", "f", "u", "r", "t">>, country |-> "germany"],
       [keyword |-> <<"s", "t", "u", "t", "t", "g", "a", "r", "t">>, country |-> "germany"],
       [keyword |-> <<"d", "uuml", "s", "s", "e", "l", "d", "o", "r", "f">>, country |-> "germany"],
       [keyword |-> <<"d", "o", "r", "t", "m", "u", "n", "d">>, country |-> "germany"],
       [keyword |-> <<"e", "s", "s", "e", "n">>, country |-> "germany"],
       [keyword |-> <<"f", "r", "a", "n", "c", "e">>, country |-> "france"],
       [keyword |-> <<"p", "a", "r", "i", "s">>, country |-> "france"],
       [keyword |-> <<"l", "y", "o", "n">>, country |-> "france"],
       [keyword |-> <<"m", "a", "r", "s", "e", "i", "l", "l", "e">>, country |-> "france"],
       [keyword |-> <<"t", "o", "u", "l", "o", "u", "s", "e">>, country |-> "france"],
       [keyword |-> <<"n", "i", "c", "e">>, country |-> "france"],
       [keyword |-> <<"n", "a", "n", "t", "e", "s">>, country |-> "france"],
       [keyword |-> <<"s", "t", "r", "a", "s", "b", "o", "u", "r", "g">>, country |-> "france"],
       [keyword |-> <<"m", "o", "n", "t", "p", "e", "l", "l", "i", "e", "r">>, country |-> "france"],
       [keyword |-> <<"b", "o", "r", "d", "e", "a", "u", "x">>, country |-> "france"],
       [keyword |-> <<"u", "a", "e">>, country |-> "uae"],
       [keyword |-> <<"d", "u", "b", "a", "i">>, country |-> "uae"],
       [keyword |-> <<"a", "b", "u", " ", "d", "h", "a", "b", "i">>, country |-> "uae"],
       [keyword |-> <<"s", "h", "a", "r", "j", "a", "h">>, country |-> "uae"],
       [keyword |-> <<"q", "a", "t", "a", "r">>, country |-> "qatar"],
       [keyword |-> <<"d", "o", "h", "a">>, country |-> "qatar"],
       [keyword |-> <<"s", "a", "u", "d", "i", " ", "a", "r", "a", "b", "i", "a">>, country |-> "saudi"],
       [keyword |-> <<"r", "i", "y", "a", "d", "h">>, country |-> "saudi"],
       [keyword |-> <<"j", "e", "d", "d", "a", "h">>, country |-> "saudi"],
       [keyword |-> <<"k", "u", "w", "a", "i", "t">>, country |-> "kuwait"],
       [keyword |-> <<"b", "a", "h", "r", "a", "i", "n">>, country |-> "bahrain"],
       [keyword |-> <<"o", "m", "a", "n">>, country |-> "oman"],
       [keyword |-> <<"m", "u", "s", "c", "a", "t">>, country |-> "oman"] >>

\* the indexes of the mapping's keywords the location contains
found_keywords(location_lower) ==
    {i \in 1..Len(country_mapping) :
        contains(location_lower, country_mapping[i].keyword)}

first_match_backwards(location_lower) ==
    LET found == found_keywords(location_lower)
    IN IF found = {} THEN "usa"
       ELSE country_mapping[CHOOSE i \in found : \A j \in found : j <= i].country

\* the for loop of lines 258-261, which returns at the first keyword of the
\* mapping the location contains, and the default of line 265
first_match(location_lower) ==
    LET found == found_keywords(location_lower)
    IN IF found = {} THEN "usa"
       ELSE country_mapping[CHOOSE i \in found : \A j \in found : i <= j].country

\* lines 101-265
get_country_from_location(l) ==
    IF ~truthy(l) THEN "usa"
    ELSE first_match(strip(lower(l)))

LocDhakaPadded == <<" ", "D", "h", "a", "k", "a", " ">>
LocLondonCanada ==
    <<"L", "o", "n", "d", "o", "n", ",", " ", "C", "a", "n", "a", "d", "a">>
\* the locations the classifier and the selector are applied to
LocateLocations ==
    Locations \cup {country_mapping[i].keyword : i \in 1..Len(country_mapping)}
    \cup {<<"D", "H", "A", "K", "A">>, LocDhakaPadded,
          <<"W", "e", "s", "t", " ", "B", "e", "n", "g", "a", "l">>,
          LocLondonCanada, <<"X", "a", "n", "a", "d", "u">>}

Unset == <<"unset">>

LocateIdle ==
    /\ place = NoneStr
    /\ selected_sites = Unset
    /\ detected_country = "unset"
    /\ bd_applicable = "unset"

\* a call of get_available_sites(place)
CallGetAvailableSites ==
    /\ selected_sites = Unset
    /\ selected_sites' = get_available_sites(place)
    /\ UNCHANGED <<place, detected_country, bd_applicable>>
    /\ UNCHANGED <<scrapeVars, wrapVars, wrapSelVars, normVars, searchVars,
                   twoRunVars, resumeVars>>

\* a call of get_country_from_location(place)
CallGetCountry ==
    /\ detected_country = "unset"
    /\ detected_country' = get_country_from_location(place)
    /\ UNCHANGED <<place, selected_sites, bd_applicable>>
    /\ UNCHANGED <<scrapeVars, wrapVars, wrapSelVars, normVars, searchVars,
                   twoRunVars, resumeVars>>

\* a call of is_bangladesh_location(place), the crawler's applicability check
CallIsBangladeshLocation ==
    /\ bd_applicable = "unset"
    /\ bd_applicable' = IF is_bangladesh_location(place) THEN "yes" ELSE "no"
    /\ UNCHANGED <<place, selected_sites, detected_country>>
    /\ UNCHANGED <<scrapeVars, wrapVars, wrapSelVars, normVars, searchVars,
                   twoRunVars, resumeVars>>

----------------------------------------------------------------------------
(* backend/modules/services.py: JobService.scrape_jobs_wrapper *)

API_LIMIT == 200

\* a row of a scraped DataFrame
Rows == [job_url : 1..MaxUrl, is_remote : {"True", "False", "None"}]

AllColumns == {"job_url", "is_remote", "site"}

\* pd.DataFrame()
EmptyFrame == [columns |-> {}, rows |-> <<>>]

\* the DataFrames scrape_jobs returns: empty, or its postings with every column
ScrapedFrames ==
    {EmptyFrame} \cup
    [columns : {AllColumns}, rows : UNION {[1..n -> Rows] : n \in 1..MaxRows}]

\* the results_wanted values of a wrapper call: small ones, and those around
\* the points where the over-fetch reaches the cap
WantedValues ==
    (1..MaxSmallWanted) \cup
    {API_LIMIT \div 3, API_LIMIT \div 3 + 1, API_LIMIT - 1, API_LIMIT}

initial_request_doubles(rw, ir) ==
    IF ir # "None" THEN Min(rw * 2, API_LIMIT) ELSE rw

\* lines 67-70
initial_request(rw, ir) ==
    IF ir # "None" THEN Min(rw * 3, API_LIMIT) ELSE rw

additional_request_uncapped(rw, filtered_count, initial) ==
    (rw - filtered_count) * 2

additional_request_single(rw, filtered_count, initial) ==
    Min(rw - filtered_count, API_LIMIT - initial)

\* lines 104-105
additional_request(rw, filtered_count, initial) ==
    Min((rw - filtered_count) * 2, API_LIMIT - initial)

filter_remote_keeps_all(rows, ir) == rows

\* lines 91-96 and 123-126
filter_remote(rows, ir) ==
    IF ir = "True"
    THEN SelectSeq(rows, LAMBDA r : r.is_remote = "True")
    ELSE SelectSeq(rows, LAMBDA r : r.is_remote # "True")

drop_existing_keeps_all(rows, existing_urls) == rows

\* lines 131-132
drop_existing(rows, existing_urls) ==
    SelectSeq(rows, LAMBDA r : r.job_url \notin existing_urls)

additional_except_empties(df) == [columns |-> {}, rows |-> <<>>]

\* lines 136-137: the supplementary round's own except clause logs a warning
\* and leaves jobs_df as it is
additional_except(df) == df

head_keeps_all(rows, n) == rows

\* DataFrame.head(n)
head(rows, n) == SubSeq(rows, 1, Min(n, Len(rows)))

\* line 88: is_remote is not None and not jobs_df.empty
filter_needed(df, ir) == ir # "None" /\ df.rows # <<>>

\* line 54
service_bangladesh_keywords ==
    << <<"b", "a", "n", "g", "l", "a", "d", "e", "s", "h">>,
       <<"d", "h", "a", "k", "a">>,
       <<"c", "h", "i", "t", "t", "a", "g", "o", "n", "g">>,
       <<"s", "y", "l", "h", "e", "t">>,
       <<"r", "a", "j", "s", "h", "a", "h", "i">>,
       <<"k", "h", "u", "l", "n", "a">>,
       <<"b", "a", "r", "i", "s", "a", "l">>,
       <<"r", "a", "n", "g", "p", "u", "r">>,
       <<"m", "y", "m", "e", "n", "s", "i", "n", "g", "h">> >>

\* line 64
HOURS_OLD == 72

\* lines 52-64: the recency filter of the call, {} standing for None
hours_old_for(l, selected) ==
    LET location_lower == strip(lower(l))
        is_bd == any_keyword_in(service_bangladesh_keywords, location_lower)
    IN IF is_bd /\ BDJOBS_AVAILABLE /\ BDJOBS \in Range(selected)
       THEN {}
       ELSE {HOURS_OLD}

wrapper_except_propagates(error_msg) ==
    [outcome |-> "raised", df |-> [columns |-> {}, rows |-> <<>>]]

\* lines 151-158: log the error and return an empty DataFrame
wrapper_except(error_msg) ==
    [outcome |-> "returned", df |-> EmptyFrame]

WrapIdle ==
    /\ results_wanted = 1
    /\ is_remote = "None"
    /\ wpc = "Idle"
    /\ initial_results_wanted = 0
    /\ rounds = <<>>
    /\ raw_rounds = <<>>
    /\ jobs_df = EmptyFrame
    /\ filtered = FALSE
    /\ additional_failed = FALSE
    /\ merged = <<>>
    /\ returned_df = EmptyFrame
    /\ location = NoneStr
    /\ sites = Unset
    /\ country_code = "unset"
    /\ hours_old_param = {}
    /\ round_hours_old = <<>>
    /\ raised_by = {}
    /\ wrapper_outcome = "running"

\* lines 40-64: the sites, the country and the recency filter of the call;
\* location.lower() of line 53 raises on None, which lines 151-158 catch
SelectSites ==
    /\ wpc = "Select"
    /\ sites' = get_available_sites(location)
    /\ country_code' = get_country_from_location(location)
    /\ IF location = NoneStr
       THEN /\ raised_by' = raised_by \cup {"select"}
            /\ wrapper_outcome' = wrapper_except("AttributeError").outcome
            /\ returned_df' = wrapper_except("AttributeError").df
            /\ wpc' = "Done"
            /\ UNCHANGED hours_old_param
       ELSE /\ hours_old_param' = hours_old_for(location, sites')
            /\ wpc' = "Start"
            /\ UNCHANGED <<raised_by, wrapper_outcome, returned_df>>
    /\ UNCHANGED <<results_wanted, is_remote, initial_results_wanted, rounds,
                   raw_rounds, jobs_df, filtered, additional_failed, merged,
                   location, round_hours_old>>
    /\ UNCHANGED outsideWrapper

\* lines 66-71
ComputeInitial ==
    /\ wpc = "Start"
    /\ initial_results_wanted' = initial_request(results_wanted, is_remote)
    /\ wpc' = "Round1"
    /\ UNCHANGED <<results_wanted, is_remote, rounds, raw_rounds, jobs_df,
                   filtered, additional_failed, merged, returned_df>>
    /\ UNCHANGED wrapSelVars
    /\ UNCHANGED outsideWrapper

\* the first scrape_jobs call raises: lines 74-83, then 151-158
Round1Raises ==
    /\ wpc = "Round1"
    /\ rounds' = Append(rounds, initial_results_wanted)
    /\ round_hours_old' = Append(round_hours_old, hours_old_param)
    /\ raised_by' = raised_by \cup {"round1"}
    /\ wrapper_outcome' = wrapper_except("scrape_jobs failed").outcome
    /\ returned_df' = wrapper_except("scrape_jobs failed").df
    /\ wpc' = "Done"
    /\ UNCHANGED <<results_wanted, is_remote, initial_results_wanted,
                   raw_rounds, jobs_df, filtered, additional_failed, merged>>
    /\ UNCHANGED <<location, sites, country_code, hours_old_param>>
    /\ UNCHANGED outsideWrapper

\* the first scrape_jobs call returns: lines 74-85
Round1Returns ==
    /\ wpc = "Round1"
    /\ rounds' = Append(rounds, initial_results_wanted)
    /\ \E df \in ScrapedFrames :
          /\ jobs_df' = df
          /\ raw_rounds' = Append(raw_rounds, df.rows)
    /\ round_hours_old' = Append(round_hours_old, hours_old_param)
    /\ wpc' = "Filter"
    /\ UNCHANGED <<results_wanted, is_remote, initial_results_wanted,
                   filtered, additional_failed, merged, returned_df>>
    /\ UNCHANGED <<location, sites, country_code, hours_old_param, raised_by,
                   wrapper_outcome>>
    /\ UNCHANGED outsideWrapper

\* the post-scraping filter and the decision to fetch more: lines 88-107
FilterFirst ==
    /\ wpc = "Filter"
    /\ IF filter_needed(jobs_df, is_remote) /\ "is_remote" \in jobs_df.columns
       THEN LET kept == filter_remote(jobs_df.rows, is_remote)
                filtered_count == Len(kept)
            IN /\ jobs_df' = [jobs_df EXCEPT !.rows = kept]
               /\ filtered' = TRUE
               /\ wpc' = IF /\ filtered_count < results_wanted
                            /\ initial_results_wanted < API_LIMIT
                            /\ additional_request(results_wanted, filtered_count,
                                                  initial_results_wanted) > 0
                         THEN "Round2"
                         ELSE "Limit"
       ELSE /\ wpc' = "Limit"
            /\ UNCHANGED <<jobs_df, filtered>>
    /\ UNCHANGED <<results_wanted, is_remote, initial_results_wanted, rounds,
                   raw_rounds, additional_failed, merged, returned_df>>
    /\ UNCHANGED wrapSelVars
    /\ UNCHANGED outsideWrapper

\* the supplementary scrape_jobs call raises: lines 108-118, then 136-137
Round2Raises ==
    /\ wpc = "Round2"
    /\ rounds' = Append(rounds, additional_request(results_wanted,
                                    Len(jobs_df.rows), initial_results_wanted))
    /\ round_hours_old' = Append(round_hours_old, hours_old_param)
    /\ additional_failed' = TRUE
    /\ raised_by' = raised_by \cup {"round2"}
    /\ jobs_df' = additional_except(jobs_df)
    /\ wpc' = "Limit"
    /\ UNCHANGED <<results_wanted, is_remote, initial_results_wanted,
                   raw_rounds, filtered, merged, returned_df>>
    /\ UNCHANGED <<location, sites, country_code, hours_old_param,
                   wrapper_outcome>>
    /\ UNCHANGED outsideWrapper

\* the supplementary scrape_jobs call returns and is merged: lines 108-135
Round2Returns ==
    /\ wpc = "Round2"
    /\ rounds' = Append(rounds, additional_request(results_wanted,
                                    Len(jobs_df.rows), initial_results_wanted))
    /\ \E additional_jobs_df \in ScrapedFrames :
          /\ raw_rounds' = Append(raw_rounds, additional_jobs_df.rows)
          /\ IF additional_jobs_df.rows # <<>>
             THEN LET kept == IF "is_remote" \in additional_jobs_df.columns
                              THEN filter_remote(additional_jobs_df.rows, is_remote)
                              ELSE additional_jobs_df.rows
                      existing_urls == {jobs_df.rows[i].job_url :
                                            i \in 1..Len(jobs_df.rows)}
                      fresh == IF "job_url" \in jobs_df.columns
                                  /\ "job_url" \in additional_jobs_df.columns
                               THEN drop_existing(kept, existing_urls)
                               ELSE kept
                  IN jobs_df' = [columns |-> jobs_df.columns
                                                \cup additional_jobs_df.columns,
                                 rows |-> jobs_df.rows \o fresh]
             ELSE UNCHANGED jobs_df
    /\ round_hours_old' = Append(round_hours_old, hours_old_param)
    /\ wpc' = "Limit"
    /\ UNCHANGED <<results_wanted, is_remote, initial_results_wanted,
                   filtered, additional_failed, merged, returned_df>>
    /\ UNCHANGED <<location, sites, country_code, hours_old_param, raised_by,
                   wrapper_outcome>>
    /\ UNCHANGED outsideWrapper

\* lines 139-149
LimitAndReturn ==
    /\ wpc = "Limit"
    /\ merged' = jobs_df.rows
    /\ returned_df' = IF Len(jobs_df.rows) > results_wanted
                      THEN [jobs_df EXCEPT !.rows = head(jobs_df.rows, results_wanted)]
                      ELSE jobs_df
    /\ wrapper_outcome' = "returned"
    /\ wpc' = "Done"
    /\ UNCHANGED <<results_wanted, is_remote, initial_results_wanted, rounds,
                   raw_rounds, jobs_df, filtered, additional_failed>>
    /\ UNCHANGED <<location, sites, country_code, hours_old_param,
                   round_hours_old, raised_by>>
    /\ UNCHANGED outsideWrapper

----------------------------------------------------------------------------
(* modules/utils.py: process_jobs_dataframe, and the JobPost model *)

\* A cell value is [t |-> its Python type, v |-> its content]; the content
\* is a sequence of text chunks
PyNone == [t |-> "None", v |-> <<>>]
NaN == [t |-> "NaN", v |-> <<>>]
PyStr(chunk) == [t |-> "str", v |-> <<chunk>>]
PyBool(b) == [t |-> "bool", v |-> <<b>>]
\* the outcome of an expression that raises
Raised(error) == [t |-> "raise", v |-> <<error>>]

\* models.py, lines 15-30: the fields of JobPost, in declaration order
JobPostFields ==
    <<"id", "title", "company_name", "job_url", "location", "description",
      "company_url", "job_type", "date_posted", "is_remote", "site",
      "min_amount", "max_amount", "currency", "interval">>

\* models.py, lines 15-30: the types a field accepts
field_types(f) ==
    CASE f \in {"title", "job_url", "site"} -> {"str"}
      [] f = "is_remote" -> {"bool", "None"}
      [] f \in {"min_amount", "max_amount"} -> {"float", "None"}
      [] OTHER -> {"str", "None"}

\* lines 290-304: the DataFrame column each field is read from
source_column(f) == IF f = "company_name" THEN "company" ELSE f

\* lines 290-304: the default handed to safe_get for each field
field_default(f) ==
    CASE f \in {"title", "company_name"} -> PyStr("N/A")
      [] f = "job_url" -> PyStr("")
      [] f = "is_remote" -> PyBool("False")
      [] f = "site" -> PyStr("unknown")
      [] OTHER -> PyNone

\* line 298: the only field read with convert_to_string=True
field_convert(f) == f = "date_posted"

\* row.get(column): None when the frame has no such column
row_get(row, column) == IF column \in DOMAIN row THEN row[column] ELSE PyNone

\* value.isoformat()
isoformat(value) ==
    IF value.t = "datetime"
    THEN [t |-> "str", v |-> <<value.v[1], "T", value.v[2]>>]
    ELSE [t |-> "str", v |-> value.v]

\* str(value)
py_str(value) ==
    IF value.t = "datetime"
    THEN [t |-> "str", v |-> <<value.v[1], " ", value.v[2]>>]
    ELSE [t |-> "str", v |-> value.v]

safe_get_keeps_missing(value, default, convert_to_string) == value

\* lines 275-287; pd.isna of a list is an array, whose truth value raises
safe_get(value, default, convert_to_string) ==
    IF value.t = "list" THEN Raised("ValueError")
    ELSE IF value.t \in {"NaN", "None"} THEN default
    ELSE IF value.t \in {"date", "datetime"}
         THEN (IF convert_to_string THEN isoformat(value) ELSE py_str(value))
    ELSE IF convert_to_string THEN py_str(value)
    ELSE value

\* lines 289-305: the keyword arguments of JobPost(...)
job_post_arguments(row) ==
    [f \in Range(JobPostFields) |->
        safe_get(row_get(row, source_column(f)), field_default(f), field_convert(f))]

\* lines 289-305: does building the JobPost of the row raise, in safe_get
\* or in the model's validation
row_raises(row) ==
    \E f \in Range(JobPostFields) :
        \/ job_post_arguments(row)[f].t = "raise"
        \/ job_post_arguments(row)[f].t \notin field_types(f)

RECURSIVE abort_loop(_, _)
abort_loop(rows, jobs_so_far) ==
    IF rows = <<>> THEN [raised |-> "no", jobs |-> jobs_so_far]
    ELSE IF row_raises(Head(rows)) THEN [raised |-> "yes", jobs |-> <<>>]
    ELSE abort_loop(Tail(rows), Append(jobs_so_far, job_post_arguments(Head(rows))))

RECURSIVE iterrows_loop(_, _)
\* lines 272-311: one try/except per row, continue on any exception
iterrows_loop(rows, jobs_so_far) ==
    IF rows = <<>> THEN [raised |-> "no", jobs |-> jobs_so_far]
    ELSE IF row_raises(Head(rows)) THEN iterrows_loop(Tail(rows), jobs_so_far)
    ELSE iterrows_loop(Tail(rows), Append(jobs_so_far, job_post_arguments(Head(rows))))

process_jobs_dataframe_aborts(df) == abort_loop(df.rows, <<>>)

\* lines 268-313
process_jobs_dataframe(df) == iterrows_loop(df.rows, <<>>)

\* the columns of a scraped frame the normalizer reads
FullColumns == {source_column(f) : f \in Range(JobPostFields)}

\* a frame that carries only these columns
SparseColumns == {"title", "company"}

\* a scraped row: three cells vary, the others are fixed
FullRow(title, company, date_posted) ==
    [c \in FullColumns |->
        CASE c = "id" -> PyStr("li-1")
          [] c = "title" -> title
          [] c = "company" -> company
          [] c = "job_url" -> PyStr("https://jobs.example/1")
          [] c = "location" -> company
          [] c = "description" -> NaN
          [] c = "company_url" -> PyNone
          [] c = "job_type" -> PyStr("fulltime")
          [] c = "date_posted" -> date_posted
          [] c = "is_remote" -> PyBool("True")
          [] c = "site" -> PyStr("linkedin")
          [] c = "min_amount" -> [t |-> "float", v |-> <<"50000.0">>]
          [] c = "max_amount" -> NaN
          [] c = "currency" -> PyStr("USD")
          [] c = "interval" -> PyNone]

CompanyCells == {PyStr("Acme"), PyNone}
FullRows ==
    {FullRow(title, company, date_posted) :
        title \in {PyStr("Engineer"), NaN, [t |-> "list", v |-> <<"a", "b">>],
                   [t |-> "dict", v |-> <<"k">>]},
        company \in CompanyCells,
        date_posted \in {[t |-> "date", v |-> <<"2024-01-05">>],
                         [t |-> "datetime", v |-> <<"2024-01-05", "10:30:00">>],
                         NaN}}

SparseRows ==
    {[c \in SparseColumns |-> IF c = "title" THEN t ELSE k] :
        t \in {PyStr("Engineer"), NaN}, k \in CompanyCells}

\* the DataFrames handed to the normalizer: every row of a frame has the
\* frame's columns
NormFrames ==
    UNION {[columns : {FullColumns}, rows : [1..n -> FullRows]] : n \in 0..MaxNormRows}
    \cup UNION {[columns : {SparseColumns}, rows : [1..n -> SparseRows]] :
                   n \in 1..MaxNormRows}

\* a JobPost list taken as a DataFrame, one column per JobPost field
postings_frame(posts) ==
    [columns |-> Range(JobPostFields), rows |-> posts]

NormIdle ==
    /\ norm_df = [columns |-> FullColumns, rows |-> <<>>]
    /\ npc = "idle"
    /\ jobs_list = <<>>
    /\ jobs_list_again = <<>>
    /\ normalize_raised = "no"

\* a call process_jobs_dataframe(norm_df)
Normalize ==
    /\ npc = "raw"
    /\ jobs_list' = process_jobs_dataframe(norm_df).jobs
    /\ normalize_raised' = process_jobs_dataframe(norm_df).raised
    /\ npc' = "normalized"
    /\ UNCHANGED <<norm_df, jobs_list_again>>
    /\ UNCHANGED <<scrapeVars, wrapVars, wrapSelVars, locateVars, searchVars,
                   twoRunVars, resumeVars>>

\* a second call, on the postings of the first taken as rows
Renormalize ==
    /\ npc = "normalized"
    /\ normalize_raised = "no"
    /\ jobs_list_again' = process_jobs_dataframe(postings_frame(jobs_list)).jobs
    /\ normalize_raised' = process_jobs_dataframe(postings_frame(jobs_list)).raised
    /\ npc' = "renormalized"
    /\ UNCHANGED <<norm_df, jobs_list>>
    /\ UNCHANGED <<scrapeVars, wrapVars, wrapSelVars, locateVars, searchVars,
                   twoRunVars, resumeVars>>

----------------------------------------------------------------------------
(* backend/modules/services.py: JobService.search_jobs *)

\* models.py, lines 9-12: the fields of JobSearchRequest
JobSearchRequestFields == {"location", "search_keyword", "results_wanted"}

\* attribute access on a pydantic model: AttributeError on an undeclared name
has_attribute(req, name) == name \in DOMAIN req

Keywords == {<<>>, <<" ", " ">>, <<"p", "y", "t", "h", "o", "n">>, <<"Q", "A">>}

\* the requests that pass the model's own validation (ge=1, le=200)
Requests ==
    {[f \in JobSearchRequestFields |->
        CASE f = "location" -> l
          [] f = "search_keyword" -> k
          [] f = "results_wanted" -> <<rw>>] :
        l \in Locations \ {NoneStr}, k \in Keywords, rw \in WantedValues}

\* lines 165 and 168: not text or not text.strip()
blank(text) == ~truthy(text) \/ ~truthy(strip(text))

NoResponse ==
    [success |-> "none", total_jobs |-> 0, jobs |-> <<>>, message |-> "none"]

\* lines 184-224: the response built from the wrapper's DataFrame
response_data(df, wanted) ==
    IF df.rows = <<>>
    THEN [success |-> "yes", total_jobs |-> 0, jobs |-> <<>>,
          message |-> "No jobs found"]
    ELSE LET posts == process_jobs_dataframe(df).jobs
             limited == IF Len(posts) > wanted THEN SubSeq(posts, 1, wanted)
                        ELSE posts
         IN [success |-> "yes", total_jobs |-> Len(limited), jobs |-> limited,
             message |-> "Successfully found"]

SearchIdle ==
    /\ request = [f \in JobSearchRequestFields |-> <<>>]
    /\ spc = "idle"
    /\ http_status = 0
    /\ search_response = NoResponse

\* lines 161-235: the whole handler. The wrapper is called with
\* request.is_remote (line 180), an attribute JobSearchRequest does not have:
\* the AttributeError is caught at line 230 and becomes an HTTPException 500,
\* which routes.py (lines 62-64) re-raises.
SearchJobs ==
    /\ spc = "called"
    /\ spc' = "done"
    /\ IF blank(request["location"]) \/ blank(request["search_keyword"])
       THEN /\ http_status' = 400
            /\ search_response' = NoResponse
       ELSE IF ~has_attribute(request, "is_remote")
       THEN /\ http_status' = 500
            /\ search_response' = NoResponse
       ELSE \E df \in NormFrames :
                /\ http_status' = 200
                /\ search_response' =
                       response_data(df, request["results_wanted"][1])
    /\ UNCHANGED request
    /\ UNCHANGED <<scrapeVars, wrapVars, wrapSelVars, locateVars, normVars,
                   twoRunVars, resumeVars>>

----------------------------------------------------------------------------
(* backend/modules/services.py: ResumeService *)

TextFilled == <<"C", "V">>
Texts == {<<>>, <<" ", "\n">>, TextFilled, <<" ", "C">>}

\* the calls: the method, and the two texts the method validates (none for
\* analyze_resume, which takes a file)
ResumeCalls ==
    [method : {"build_custom_resume", "customize_resume_for_job"},
     job : Texts, resume : Texts]
    \cup [method : {"analyze_resume"}, job : {TextFilled}, resume : {TextFilled}]

\* what client.post does: a response with a status and a body, or an httpx
\* exception. The body of an answer is JSON of the expected shape
\* ("valid"), not JSON at all ("unparsable"), or JSON that the response
\* model rejects ("invalid").
UpstreamOutcomes ==
    [kind : {"response"}, status : {200, 400, 404, 422, 429, 500, 502},
     body : {"valid", "unparsable", "invalid"}]
    \cup [kind : {"TimeoutException", "RequestError"}, status : {0},
          body : {"none"}]

NoAnswer == [kind |-> "none", status |-> 0, detail |-> "none"]

\* raise HTTPException(status_code=status, detail=detail)
HTTPException(status, detail) ==
    [kind |-> "HTTPException", status |-> status, detail |-> detail]

\* lines 439-443 and 548-552: the validation of the two texts
validate(call) ==
    IF blank(call.job)
    THEN HTTPException(400, "Job details are required and cannot be empty")
    ELSE IF blank(call.resume)
    THEN HTTPException(400, "Resume details are required and cannot be empty")
    ELSE NoAnswer

\* lines 415-432, 475-492 and 588-605: the except clauses of the three
\* methods. None of them names HTTPException, which is an Exception: an
\* HTTPException raised inside the try block reaches the last clause.
except_clauses(raised) ==
    IF raised.kind = "TimeoutException" THEN HTTPException(504, "timeout")
    ELSE IF raised.kind = "RequestError" THEN HTTPException(503, "unable to connect")
    ELSE HTTPException(500, "An unexpected error occurred")

\* lines 459-473 and 574-586: the answer of the two resume builders to an
\* upstream response; with status 200 the body is passed on as it is
on_builder_response(o) ==
    IF o.status = 200
    THEN [kind |-> "returned", status |-> 200, detail |-> "latex_code"]
    ELSE except_clauses(HTTPException(o.status, "external API error"))

\* lines 368-413: the answer of analyze_resume to an upstream response; a
\* body that is not JSON yields the default analysis (lines 399-407), one
\* that the response model rejects raises a ValidationError
on_analysis_response(o) ==
    IF o.status = 200
    THEN IF o.body = "valid"
         THEN [kind |-> "returned", status |-> 200, detail |-> "analysis"]
         ELSE IF o.body = "unparsable"
         THEN [kind |-> "returned", status |-> 200, detail |-> "default analysis"]
         ELSE except_clauses([kind |-> "ValidationError"])
    ELSE except_clauses(HTTPException(o.status, "resume analysis failed"))

ResumeIdle ==
    /\ resume_call = [method |-> "none", job |-> <<>>, resume |-> <<>>]
    /\ rpc = "idle"
    /\ upstream = [kind |-> "none", status |-> 0, body |-> "none"]
    /\ upstream_calls = 0
    /\ resume_answer = NoAnswer

\* the body shared by build_custom_resume (lines 435-492) and
\* customize_resume_for_job (lines 544-605)
BuildResume(method) ==
    /\ rpc = "called"
    /\ resume_call.method = method
    /\ rpc' = "done"
    /\ IF validate(resume_call) # NoAnswer
       THEN /\ resume_answer' = except_clauses(validate(resume_call))
            /\ UNCHANGED <<upstream, upstream_calls>>
       ELSE \E o \in UpstreamOutcomes :
                /\ upstream' = o
                /\ upstream_calls' = upstream_calls + 1
                /\ resume_answer' = IF o.kind = "response"
                                    THEN on_builder_response(o)
                                    ELSE except_clauses(o)
    /\ UNCHANGED resume_call
    /\ UNCHANGED <<scrapeVars, wrapVars, wrapSelVars, locateVars, normVars,
                   searchVars, twoRunVars>>

\* lines 435-492
BuildCustomResume == BuildResume("build_custom_resume")

\* lines 544-605
CustomizeResumeForJob == BuildResume("customize_resume_for_job")

\* lines 353-432
AnalyzeResume ==
    /\ rpc = "called"
    /\ resume_call.method = "analyze_resume"
    /\ rpc' = "done"
    /\ \E o \in UpstreamOutcomes :
           /\ upstream' = o
           /\ upstream_calls' = upstream_calls + 1
           /\ resume_answer' = IF o.kind = "response"
                               THEN on_analysis_response(o)
                               ELSE except_clauses(o)
    /\ UNCHANGED resume_call
    /\ UNCHANGED <<scrapeVars, wrapVars, wrapSelVars, locateVars, normVars,
                   searchVars, twoRunVars>>

----------------------------------------------------------------------------
(* Specifications *)

NextScrape ==
    \/ CheckLocation
    \/ LoopTest
    \/ FetchError
    \/ FetchNon200
    \/ FetchNoCards
    \/ FetchCards
    \/ ProcessCard
    \/ NextPage

\* a crawler run on its own
InitScrapeRun ==
    /\ scraper_input \in [location : Locations, results_wanted : 1..MaxWanted]
    /\ pc = "Init"
    /\ job_list = <<>>
    /\ seen_ids = {}
    /\ page = 1
    /\ job_cards = <<>>
    /\ fetches = 0
    /\ sleeps = 0
    /\ response = "none"
    /\ last_card = "none"
    /\ outcome = "running"
    /\ jobs = <<>>
    /\ WrapIdle
    /\ LocateIdle
    /\ NormIdle
    /\ SearchIdle
    /\ TwoRunsIdle
    /\ ResumeIdle

SpecScrape == InitScrapeRun /\ [][NextScrape]_vars

NextTwoRuns == \E r \in Runs : RunStep(r)

InitTwoRunsCall ==
    /\ runs \in {[r \in Runs |-> NewRun(inps[r])] :
                   inps \in [Runs -> [location : {LocDhaka, LocParis},
                                      results_wanted : {1, 2}]]}
    /\ self_scraper_input = [location |-> NoneStr, results_wanted |-> 1]
    /\ alone = [r \in Runs |-> <<>>]
    /\ ScrapeIdle
    /\ WrapIdle
    /\ LocateIdle
    /\ NormIdle
    /\ SearchIdle
    /\ ResumeIdle

SpecTwoRuns == InitTwoRunsCall /\ [][NextTwoRuns]_vars

\* each run keeps executing: scrape() is one sequential loop on its own
\* worker, and every fetch returns or fails within its timeout (line 189)
SpecTwoRunsLive ==
    InitTwoRunsCall /\ [][NextTwoRuns]_vars /\ \A r \in Runs : WF_vars(RunStep(r))

NextWrapper ==
    \/ SelectSites
    \/ ComputeInitial
    \/ Round1Raises
    \/ Round1Returns
    \/ FilterFirst
    \/ Round2Raises
    \/ Round2Returns
    \/ LimitAndReturn

\* a wrapper call on its own
InitWrapperCall ==
    /\ results_wanted \in WantedValues
    /\ is_remote \in {"None", "True", "False"}
    /\ location \in {NoneStr, LocDhaka, LocParis}
    /\ sites = Unset
    /\ country_code = "unset"
    /\ hours_old_param = {}
    /\ round_hours_old = <<>>
    /\ raised_by = {}
    /\ wrapper_outcome = "running"
    /\ wpc = "Select"
    /\ initial_results_wanted = 0
    /\ rounds = <<>>
    /\ raw_rounds = <<>>
    /\ jobs_df = EmptyFrame
    /\ filtered = FALSE
    /\ additional_failed = FALSE
    /\ merged = <<>>
    /\ returned_df = EmptyFrame
    /\ ScrapeIdle
    /\ LocateIdle
    /\ NormIdle
    /\ SearchIdle
    /\ TwoRunsIdle
    /\ ResumeIdle

SpecWrapper == InitWrapperCall /\ [][NextWrapper]_vars

NextLocate ==
    \/ CallGetAvailableSites
    \/ CallGetCountry
    \/ CallIsBangladeshLocation

InitLocateRun ==
    /\ place \in LocateLocations
    /\ selected_sites = Unset
    /\ detected_country = "unset"
    /\ bd_applicable = "unset"
    /\ ScrapeIdle
    /\ WrapIdle
    /\ NormIdle
    /\ SearchIdle
    /\ TwoRunsIdle
    /\ ResumeIdle

SpecLocate == InitLocateRun /\ [][NextLocate]_vars

NextNormalize ==
    \/ Normalize
    \/ Renormalize

InitNormalizeRun ==
    /\ norm_df \in NormFrames
    /\ npc = "raw"
    /\ jobs_list = <<>>
    /\ jobs_list_again = <<>>
    /\ normalize_raised = "no"
    /\ ScrapeIdle
    /\ WrapIdle
    /\ LocateIdle
    /\ SearchIdle
    /\ TwoRunsIdle
    /\ ResumeIdle

SpecNormalize == InitNormalizeRun /\ [][NextNormalize]_vars

NextSearch == SearchJobs

InitSearchCall ==
    /\ request \in Requests
    /\ spc = "called"
    /\ http_status = 0
    /\ search_response = NoResponse
    /\ ScrapeIdle
    /\ WrapIdle
    /\ LocateIdle
    /\ NormIdle
    /\ TwoRunsIdle
    /\ ResumeIdle

SpecSearch == InitSearchCall /\ [][NextSearch]_vars

NextResume ==
    \/ BuildCustomResume
    \/ CustomizeResumeForJob
    \/ AnalyzeResume

InitResumeCall ==
    /\ resume_call \in ResumeCalls
    /\ rpc = "called"
    /\ upstream = [kind |-> "none", status |-> 0, body |-> "none"]
    /\ upstream_calls = 0
    /\ resume_answer = NoAnswer
    /\ ScrapeIdle
    /\ WrapIdle
    /\ LocateIdle
    /\ NormIdle
    /\ SearchIdle
    /\ TwoRunsIdle

SpecResume == InitResumeCall /\ [][NextResume]_vars

----------------------------------------------------------------------------
(* Properties of BDJobs.scrape, checked under SpecScrape *)

\* C1: at every point of a run, and in the list handed back, the number of
\* accumulated postings is at most results_wanted.
C1_BoundOnCount ==
    /\ Len(job_list) <= scraper_input.results_wanted
    /\ Len(jobs) <= scraper_input.results_wanted

\* the early stop happened inside a page that still had cards to offer
C1_Witness ==
    /\ pc = "EndPage"
    /\ job_cards # <<>>
    /\ Len(job_list) = scraper_input.results_wanted

\* C2: no two accumulated postings share an id, seen_ids is exactly the set
\* of accumulated ids, and a posting is appended only if its id was not seen.
C2_Dedup ==
    /\ [](/\ \A i, j \in 1..Len(job_list) :
                i # j => job_list[i].id # job_list[j].id
          /\ \A i, j \in 1..Len(jobs) : i # j => jobs[i].id # jobs[j].id)
    /\ [][Len(job_list') > Len(job_list)
            => job_list'[Len(job_list')].id \notin seen_ids]_vars

\* a card repeating an id of an earlier page was met and skipped
C2_Witness ==
    /\ last_card = "duplicate"
    /\ page >= 2
    /\ job_list # <<>>
    /\ job_cards # <<>>

\* C3: a run issues at most 5 search-page requests.
C3_PageCap == fetches <= 5

\* five pages were fetched, none empty, and the run still ended short
C3_Witness ==
    /\ pc = "Done"
    /\ fetches = 5
    /\ response = "cards"
    /\ Len(jobs) < scraper_input.results_wanted

\* the sample locations that name no Bangladesh indicator
InapplicableLocations == {LocParis, LocLondon, LocBlank}

\* C4: for an inapplicable location the run is either not started or Done,
\* with no fetch issued, nothing accumulated and an empty list returned.
C4_ShortCircuit ==
    scraper_input.location \in InapplicableLocations =>
        /\ pc \in {"Init", "Done"}
        /\ fetches = 0
        /\ job_list = <<>>
        /\ pc = "Done" => (outcome = "returned" /\ jobs = <<>>)

C4_Witness ==
    /\ scraper_input.location = LocParis
    /\ pc = "Done"
    /\ outcome = "returned"
    /\ jobs = <<>>
    /\ fetches = 0

FailedResponses == {"error", "non200", "no_cards"}

\* C5: the step that meets a failed fetch or a page without cards ends the
\* run: it returns, without raising, the postings accumulated before it,
\* and no fetch follows it.
C5_StopOnFailure ==
    [][/\ response' \in FailedResponses =>
            /\ pc' = "Done"
            /\ outcome' = "returned"
            /\ job_list' = job_list
            /\ jobs' = job_list
       /\ response \in FailedResponses => fetches' = fetches]_vars

\* a later page failed after earlier pages had yielded postings
C5_Witness ==
    /\ response = "non200"
    /\ pc = "Done"
    /\ fetches >= 2
    /\ Len(jobs) >= 1

\* the locations that are empty or hold only whitespace
UnspecifiedLocations == {LocEmpty, LocBlank}

\* C14: once the run of an empty or whitespace-only location has passed the
\* location check, the country of the location is the default "usa", the
\* crawler's applicability check is true, and the run did not short-circuit:
\* it is not Done without having fetched a page.
C14_BlankIsUnspecified ==
    (scraper_input.location \in UnspecifiedLocations /\ pc # "Init") =>
        /\ get_country_from_location(scraper_input.location) = "usa"
        /\ is_bangladesh_location(scraper_input.location)
        /\ ~(pc = "Done" /\ fetches = 0)

\* the ids of a list of postings, in order
Ids(posts) == [i \in 1..Len(posts) |-> posts[i].id]

RECURSIVE NewIds(_, _)
\* the ids, in page order and without repetition, of the cards whose
\* extraction succeeds and whose id is not among `known`
NewIds(cards, known) ==
    IF cards = <<>> THEN <<>>
    ELSE LET id == extract_job_id_from_url(Head(cards).href)
         IN IF Head(cards).ok /\ id \notin known
            THEN <<id>> \o NewIds(Tail(cards), known \cup {id})
            ELSE NewIds(Tail(cards), known)

\* the first page is being accumulated, or has just been
OnFirstPage ==
    fetches = 1 /\ response = "cards" /\ pc \in {"Accumulating", "EndPage"}

\* the distinct-id candidates of the page at hand: those already accumulated
\* followed by those still to come
Candidates == Ids(job_list) \o NewIds(job_cards, Range(Ids(job_list)))

C23_SkipFailedCard ==
    /\ [][(pc = "Accumulating" /\ job_cards # <<>> /\ ~Head(job_cards).ok) =>
             /\ job_list' = job_list
             /\ seen_ids' = seen_ids
             /\ page' = page
             /\ outcome' = "running"
             /\ job_cards' = Tail(job_cards)
             /\ pc' = IF Tail(job_cards) = <<>> THEN "EndPage"
                      ELSE "Accumulating"]_vars
    /\ [][pc = "EndPage" =>
             (pc' = "Paginating" /\ page' = page + 1 /\ job_list' = job_list)]_vars
    /\ [][(pc = "Paginating" /\ page <= 5
             /\ Len(job_list) < scraper_input.results_wanted) =>
             pc' = "Fetching"]_vars

\* the first page ended with a failing card, and the second page is fetched
C23_Witness ==
    /\ last_card = "failed"
    /\ pc = "Fetching"
    /\ page = 2
    /\ Len(job_list) = 1

\* C25: fetches are issued one at a time, the k-th fetch requests page k and
\* is preceded by k - 1 sleeps, and the page number moves only forward by
\* one, together with a sleep.
C25_Sequential ==
    [][/\ fetches' \in {fetches, fetches + 1}
       /\ fetches' = fetches + 1 =>
              /\ pc = "Fetching"
              /\ pc' # "Fetching"
              /\ page = fetches + 1
              /\ sleeps = fetches
       /\ page' \in {page, page + 1}
       /\ page' = page + 1 => sleeps' = sleeps + 1]_vars

\* the third page has just been fetched, after two sleeps
C25_Witness ==
    /\ fetches = 3
    /\ page = 3
    /\ sleeps = 2
    /\ pc = "Accumulating"

----------------------------------------------------------------------------
(* Properties of two BDJobs.scrape runs, checked under SpecTwoRuns *)

\* the ids a run holds in job_list
HeldIds(r) == {runs[r].job_list[i].id : i \in 1..Len(runs[r].job_list)}

\* C21: whatever the interleaving of the two runs, each run holds exactly
\* the postings it would hold had it met its own cards alone, its seen ids
\* are the ids of its own postings, and what it returns is that list.
C21_RunsIndependent ==
    \A r \in Runs :
        /\ runs[r].job_list = alone[r]
        /\ runs[r].seen_ids = HeldIds(r)
        /\ runs[r].pc = "Done" => runs[r].jobs = alone[r]

\* both runs are under way, the first in the middle of a page, and each
\* holds the posting with id 1, which the other run has seen as well; the
\* object's scraper_input is the second run's
C21_Witness ==
    /\ runs[1].pc = "Accumulating"
    /\ runs[2].pc = "EndPage"
    /\ 1 \in HeldIds(1)
    /\ 1 \in HeldIds(2)
    /\ self_scraper_input = runs[2].input
    /\ runs[1].input # runs[2].input

\* C24: every run eventually reaches Done and returns.
C24_Terminates ==
    \A r \in Runs : <>(runs[r].pc = "Done" /\ runs[r].outcome = "returned")

\* a run ended by the page ceiling: the site served it five pages of cards
\* that never filled the request
C24_Witness ==
    \E r \in Runs :
        /\ runs[r].pc = "Done"
        /\ runs[r].page = 6
        /\ Len(runs[r].jobs) < runs[r].input.results_wanted

----------------------------------------------------------------------------
(* Properties of JobService.scrape_jobs_wrapper, checked under SpecWrapper *)

RECURSIVE SeqSum(_)
SeqSum(s) == IF s = <<>> THEN 0 ELSE Head(s) + SeqSum(Tail(s))

IsPrefix(s, t) == Len(s) <= Len(t) /\ \A i \in 1..Len(s) : s[i] = t[i]

\* a row matches the requested flag
Matches(r) ==
    IF is_remote = "True" THEN r.is_remote = "True" ELSE r.is_remote # "True"

\* number of first-round rows that match the requested flag
FirstMatching == Cardinality({i \in 1..Len(raw_rounds[1]) : Matches(raw_rounds[1][i])})

\* C6: at most 2 scrape_jobs calls, and with is_remote set the sizes they
\* request add up to at most 200.
C6_BackfillBound ==
    /\ Len(rounds) <= 2
    /\ is_remote # "None" => SeqSum(rounds) <= 200

\* two rounds that together request exactly the cap
C6_Witness ==
    /\ Len(rounds) = 2
    /\ SeqSum(rounds) = 200
    /\ rounds[2] < 2 * (results_wanted - FirstMatching)

\* C7 as stated: for every first-round result, a supplementary fetch of
\* min(2 * shortfall, 200 - first request) is issued exactly when the matching
\* first-round rows are fewer than results_wanted and the first request was
\* below 200.
C7_SupplementaryAsStated ==
    (wpc = "Done" /\ is_remote # "None" /\ Len(raw_rounds) >= 1) =>
        IF FirstMatching < results_wanted /\ rounds[1] < 200
        THEN /\ Len(rounds) = 2
             /\ rounds[2] = Min(2 * (results_wanted - FirstMatching),
                                200 - rounds[1])
        ELSE Len(rounds) = 1

\* C7 amended: the same, for a first round that returned at least one
\* posting; an empty first round is followed by no supplementary fetch.
C7_Supplementary ==
    (wpc = "Done" /\ is_remote # "None" /\ Len(raw_rounds) >= 1) =>
        IF /\ raw_rounds[1] # <<>>
           /\ FirstMatching < results_wanted
           /\ rounds[1] < 200
        THEN /\ Len(rounds) = 2
             /\ rounds[2] = Min(2 * (results_wanted - FirstMatching),
                                200 - rounds[1])
        ELSE Len(rounds) = 1

\* an over-fetch of 6 for 2 wanted yields 1 match, and 2 more are requested:
\* the shape of the spec's scenario E, at the model's sizes
C7_Witness ==
    /\ wpc = "Done"
    /\ is_remote = "True"
    /\ results_wanted = 2
    /\ rounds = <<6, 2>>
    /\ FirstMatching = 1
    /\ Len(raw_rounds[1]) = 2

\* C8: the first round requests results_wanted when is_remote is unset and
\* min(3 * results_wanted, 200) when it is set; with is_remote unset nothing
\* is filtered and no second round is issued.
C8_FirstRequest ==
    /\ Len(rounds) >= 1 =>
          rounds[1] = IF is_remote = "None" THEN results_wanted
                      ELSE Min(3 * results_wanted, 200)
    /\ is_remote = "None" =>
          /\ ~filtered
          /\ Len(rounds) <= 1
          /\ Len(raw_rounds) = 1 => jobs_df.rows = raw_rounds[1]

\* an over-fetch that the cap cuts short
C8_Witness ==
    /\ wpc = "Done"
    /\ is_remote = "False"
    /\ results_wanted = 67
    /\ rounds = <<200>>

\* the list the merge is specified to produce from what the rounds returned
ExpectedMerged ==
    IF raw_rounds = <<>> THEN <<>>
    ELSE IF is_remote = "None" THEN raw_rounds[1]
    ELSE LET first == SelectSeq(raw_rounds[1], Matches)
             urls == {first[i].job_url : i \in 1..Len(first)}
             fresh(r) == r.job_url \notin urls
         IN first \o (IF Len(raw_rounds) = 2
                      THEN SelectSeq(SelectSeq(raw_rounds[2], Matches), fresh)
                      ELSE <<>>)

\* C9: the returned list has at most results_wanted entries and is a head of
\* the merged list.
C9_HeadTruncation ==
    wpc = "Done" =>
        /\ Len(returned_df.rows) <= results_wanted
        /\ IsPrefix(returned_df.rows, ExpectedMerged)

\* a merge of two rounds that had to be cut
C9_Witness ==
    /\ wpc = "Done"
    /\ Len(raw_rounds) = 2
    /\ Len(merged) > results_wanted
    /\ Len(returned_df.rows) = results_wanted
    /\ returned_df.rows[results_wanted] \in Range(raw_rounds[2])
    /\ returned_df.rows[results_wanted] \notin Range(raw_rounds[1])

\* C10: with is_remote set, every returned posting matches the flag.
C10_OnlyMatching ==
    (wpc = "Done" /\ is_remote # "None") =>
        \A i \in 1..Len(returned_df.rows) : Matches(returned_df.rows[i])

\* both rounds returned rows that do not match, and rows of both were kept
C10_Witness ==
    /\ wpc = "Done"
    /\ is_remote = "True"
    /\ Len(raw_rounds) = 2
    /\ \E i \in 1..Len(raw_rounds[1]) : ~Matches(raw_rounds[1][i])
    /\ \E i \in 1..Len(raw_rounds[2]) : ~Matches(raw_rounds[2][i])
    /\ Len(returned_df.rows) = 2
    /\ returned_df.rows[2] \notin Range(raw_rounds[1])

\* C11 as stated: the call never raises, and whenever one of its steps
\* raised, the result it returns is empty.
C11_EmptyOnAnyException ==
    /\ wrapper_outcome # "raised"
    /\ (wpc = "Done" /\ raised_by # {}) => returned_df.rows = <<>>

\* C11 amended: the call never raises and always ends by returning; an
\* exception in the site selection, the country detection or the first round
\* yields the empty DataFrame, while an exception in the supplementary round
\* is absorbed: the call returns the first results_wanted of the matching
\* first-round postings.
C11_NeverRaises ==
    /\ wrapper_outcome # "raised"
    /\ wpc = "Done" => wrapper_outcome = "returned"
    /\ (wpc = "Done" /\ raised_by \cap {"select", "round1"} # {}) =>
           returned_df = [columns |-> {}, rows |-> <<>>]
    /\ (wpc = "Done" /\ "round2" \in raised_by) =>
           /\ Len(returned_df.rows) = Min(FirstMatching, results_wanted)
           /\ \A i \in 1..Len(returned_df.rows) :
                  /\ Matches(returned_df.rows[i])
                  /\ returned_df.rows[i] \in Range(raw_rounds[1])

\* the supplementary round raised after a first round with matching postings
C11_Witness ==
    /\ wpc = "Done"
    /\ raised_by = {"round2"}
    /\ wrapper_outcome = "returned"
    /\ returned_df.rows # <<>>

\* C19: every scrape_jobs call of the wrapper passes hours_old = 72.
C19_Recency72 ==
    \A i \in 1..Len(round_hours_old) : round_hours_old[i] = {72}

\* the first-round postings that match the requested flag, in order
FirstKept == SelectSeq(raw_rounds[1], Matches)

\* C26: after a supplementary round was merged, no posting of the merged
\* list that comes from the supplementary round has the job_url of a
\* first-round posting that passed the filter.
C26_NoSharedUrl ==
    (wpc = "Done" /\ Len(raw_rounds) = 2) =>
        /\ SubSeq(merged, 1, FirstMatching) = FirstKept
        /\ \A i \in (FirstMatching + 1)..Len(merged) :
               \A j \in 1..FirstMatching :
                   merged[i].job_url # FirstKept[j].job_url

\* the supplementary round returned a matching posting with the job_url of
\* a kept first-round posting, and another one that was merged
C26_Witness ==
    /\ wpc = "Done"
    /\ Len(raw_rounds) = 2
    /\ FirstMatching = 1
    /\ Len(merged) = 2
    /\ \E i \in 1..Len(raw_rounds[2]) :
           /\ Matches(raw_rounds[2][i])
           /\ raw_rounds[2][i].job_url = FirstKept[1].job_url

\* C27 as stated: when the supplementary fetch raised, the call returns the
\* matching first-round postings, and they are not an empty result.
C27_AbsorbedNonEmpty ==
    (wpc = "Done" /\ "round2" \in raised_by) =>
        /\ wrapper_outcome = "returned"
        /\ returned_df.rows = SubSeq(FirstKept, 1, Min(FirstMatching, results_wanted))
        /\ returned_df.rows # <<>>

\* C27 amended: when the supplementary fetch raised, the call returns the
\* matching first-round postings, in order and with their columns; the
\* result is empty exactly when no first-round posting matched.
C27_Absorbed ==
    (wpc = "Done" /\ "round2" \in raised_by) =>
        /\ wrapper_outcome = "returned"
        /\ Len(raw_rounds) = 1
        /\ returned_df.rows = SubSeq(FirstKept, 1, Min(FirstMatching, results_wanted))
        /\ returned_df.columns = AllColumns
        /\ returned_df.rows = <<>> <=> FirstMatching = 0

\* the supplementary fetch raised after a first round of two postings, one
\* of which matched and is returned
C27_Witness ==
    /\ wpc = "Done"
    /\ "round2" \in raised_by
    /\ is_remote = "False"
    /\ results_wanted = 2
    /\ Len(raw_rounds[1]) = 2
    /\ Len(returned_df.rows) = 1
    /\ returned_df.rows[1] = FirstKept[1]

----------------------------------------------------------------------------
(* Properties of the site selector and the location classifier, checked *)
(* under SpecLocate                                                     *)

\* how many times a site occurs in a site list
Occurrences(site_list, site) ==
    Cardinality({i \in 1..Len(site_list) : site_list[i] = site})

\* C12: whatever the location, the selected sites hold LINKEDIN, INDEED and
\* GLASSDOOR, each exactly once.
C12_Baseline ==
    selected_sites # Unset =>
        \A site \in {"linkedin", "indeed", "glassdoor"} :
            Occurrences(selected_sites, site) = 1

\* the selector was applied to None
C12_Witness ==
    /\ place = NoneStr
    /\ selected_sites # Unset
    /\ Len(selected_sites) = 3

\* C13: BDJOBS is selected for a location only if is_bangladesh_location is
\* true for it; every keyword of the selector is an indicator of the crawler.
C13_BDJobsOnlyIfApplicable ==
    /\ \A i \in 1..Len(bangladesh_keywords) :
           bangladesh_keywords[i] \in Range(bangladesh_indicators)
    /\ (selected_sites # Unset /\ bd_applicable # "unset"
            /\ "bdjobs" \in Range(selected_sites)) =>
           bd_applicable = "yes"

\* BDJOBS was selected for " Dhaka ", which the crawler accepts
C13_Witness ==
    /\ place = LocDhakaPadded
    /\ selected_sites # Unset
    /\ selected_sites[1] = "bdjobs"
    /\ bd_applicable = "yes"

\* the mapping's keyword at index i is contained in the lower-cased location
KeywordIn(l, i) == contains(lower(l), country_mapping[i].keyword)

\* C18: the detected country is that of the first keyword of the mapping
\* contained in the lower-cased location, "usa" when there is none; "Dhaka"
\* gives "bangladesh", and the BDJobs crawler is applicable to it.
C18_FirstKeyword ==
    /\ detected_country # "unset" =>
           \/ \E i \in 1..Len(country_mapping) :
                  /\ KeywordIn(place, i)
                  /\ \A j \in 1..(i - 1) : ~KeywordIn(place, j)
                  /\ detected_country = country_mapping[i].country
           \/ /\ \A i \in 1..Len(country_mapping) : ~KeywordIn(place, i)
              /\ detected_country = "usa"
    /\ (place = LocDhaka /\ detected_country # "unset") =>
           detected_country = "bangladesh"
    /\ (place = LocDhaka /\ bd_applicable # "unset") => bd_applicable = "yes"

\* a location that contains keywords of two countries
C18_Witness ==
    /\ place = LocLondonCanada
    /\ detected_country # "unset"
    /\ Cardinality({i \in 1..Len(country_mapping) : KeywordIn(place, i)}) >= 2

----------------------------------------------------------------------------
(* Properties of process_jobs_dataframe, checked under SpecNormalize *)

RowSucceeds(row) == ~row_raises(row)

\* C15: the output is the postings of the rows that did not raise, in the
\* input order, and the call does not raise.
C15_SkipBadRows ==
    npc # "raw" =>
        LET kept == SelectSeq(norm_df.rows, RowSucceeds)
        IN /\ normalize_raised = "no"
           /\ Len(jobs_list) = Len(kept)
           /\ \A k \in 1..Len(kept) : jobs_list[k] = job_post_arguments(kept[k])

\* a bad row followed by a good one
C15_Witness ==
    /\ npc = "normalized"
    /\ Len(norm_df.rows) = 2
    /\ row_raises(norm_df.rows[1])
    /\ ~row_raises(norm_df.rows[2])
    /\ Len(jobs_list) = 1

\* a row none of whose cells makes the transformation raise
WellFormed(row) == \A c \in DOMAIN row : row[c].t \notin {"list", "dict"}

\* the cell a field is read from is missing, None or NaN
Missing(row, f) ==
    LET c == IF f = "company_name" THEN "company" ELSE f
    IN c \notin DOMAIN row \/ row[c].t \in {"None", "NaN"}

\* the defaults as stated: "N/A" for the required strings, false for the
\* remote flag, None for the optional fields
StatedDefault(f) ==
    CASE f \in {"title", "job_url", "site"} -> [t |-> "str", v |-> <<"N/A">>]
      [] f = "is_remote" -> [t |-> "bool", v |-> <<"False">>]
      [] OTHER -> [t |-> "None", v |-> <<>>]

\* the defaults of the call JobPost(...)
ActualDefault(f) ==
    CASE f \in {"title", "company_name"} -> [t |-> "str", v |-> <<"N/A">>]
      [] f = "job_url" -> [t |-> "str", v |-> <<"">>]
      [] f = "site" -> [t |-> "str", v |-> <<"unknown">>]
      [] f = "is_remote" -> [t |-> "bool", v |-> <<"False">>]
      [] OTHER -> [t |-> "None", v |-> <<>>]

\* C16 as stated: no well-formed row is dropped, and each of its missing,
\* None or NaN fields becomes "N/A" if a required string, false if the remote
\* flag, None otherwise.
C16_DefaultsAsStated ==
    npc # "raw" =>
        LET rows == SelectSeq(norm_df.rows, WellFormed)
        IN /\ Len(jobs_list) = Len(rows)
           /\ \A k \in 1..Len(rows) : \A f \in Range(JobPostFields) :
                  Missing(rows[k], f) => jobs_list[k][f] = StatedDefault(f)

\* C16 amended: no well-formed row is dropped, and each of its missing, None
\* or NaN fields becomes "N/A" for title and company_name, "" for job_url,
\* "unknown" for site, false for is_remote and None for every other field.
C16_Defaults ==
    npc # "raw" =>
        LET rows == SelectSeq(norm_df.rows, WellFormed)
        IN /\ normalize_raised = "no"
           /\ Len(jobs_list) = Len(rows)
           /\ \A k \in 1..Len(rows) : \A f \in Range(JobPostFields) :
                  Missing(rows[k], f) => jobs_list[k][f] = ActualDefault(f)

\* a row with location None, date_posted NaN and title NaN was normalized
C16_Witness ==
    /\ npc = "normalized"
    /\ Len(norm_df.rows) = 1
    /\ "location" \in DOMAIN norm_df.rows[1]
    /\ norm_df.rows[1]["location"].t = "None"
    /\ norm_df.rows[1]["date_posted"].t = "NaN"
    /\ norm_df.rows[1]["title"].t = "NaN"
    /\ Len(jobs_list) = 1
    /\ jobs_list[1]["location"].t = "None"
    /\ jobs_list[1]["date_posted"].t = "None"
    /\ jobs_list[1]["title"].v = <<"N/A">>

\* C17: normalizing the postings of a normalization, taken as rows, yields
\* the same postings.
C17_Idempotent ==
    npc = "renormalized" => jobs_list_again = jobs_list

----------------------------------------------------------------------------
(* Properties of JobService.search_jobs, checked under SpecSearch *)

NonBlank(text) == text # <<>> /\ strip(text) # <<>>

\* C20: a request with a non-blank location and a non-blank keyword is
\* answered with status 200 and success, total_jobs being the length of jobs
\* and at most results_wanted.
C20_NeverFails ==
    (spc = "done" /\ NonBlank(request["location"])
        /\ NonBlank(request["search_keyword"])) =>
        /\ http_status = 200
        /\ search_response.success = "yes"
        /\ search_response.total_jobs = Len(search_response.jobs)
        /\ search_response.total_jobs <= request["results_wanted"][1]

----------------------------------------------------------------------------
(* Properties of the country mapping, checked under SpecLocate *)

\* C30: a location that is a keyword of the country mapping is classified
\* as the country the mapping assigns to that keyword.
C30_KeywordOwnCountry ==
    detected_country # "unset" =>
        \A i \in 1..Len(country_mapping) :
            place = country_mapping[i].keyword =>
                detected_country = country_mapping[i].country

----------------------------------------------------------------------------
(* Properties of ResumeService, checked under SpecResume *)

\* a text that is empty or made of whitespace only
OnlyWhitespace(text) ==
    \A i \in 1..Len(text) : text[i] \in {" ", "\t", "\n", "\r"}

\* the details that say a text is required
RequiredDetails ==
    {"Job details are required and cannot be empty",
     "Resume details are required and cannot be empty"}

\* C28: a call of build_custom_resume or customize_resume_for_job whose job
\* text or resume text is empty or whitespace-only ends with an
\* HTTPException of status 400 whose detail says the text is required, and
\* sends no request to the external service.
C28_Rejects400 ==
    (/\ rpc = "done"
     /\ resume_call.method \in {"build_custom_resume", "customize_resume_for_job"}
     /\ OnlyWhitespace(resume_call.job) \/ OnlyWhitespace(resume_call.resume)) =>
        /\ resume_answer.kind = "HTTPException"
        /\ resume_answer.status = 400
        /\ resume_answer.detail \in RequiredDetails
        /\ upstream_calls = 0

\* C29: when the external service answers analyze_resume with a status
\* other than 200, the HTTPException raised carries that status.
C29_StatusPassedThrough ==
    (/\ rpc = "done"
     /\ resume_call.method = "analyze_resume"
     /\ upstream.kind = "response"
     /\ upstream.status # 200) =>
        /\ resume_answer.kind = "HTTPException"
        /\ resume_answer.status = upstream.status

====
